---- MODULE Spec2Model ----
(***************************************************************************)
(* A model of GD-Downloader's checkpoint store (checkpoint.py) and of the  *)
(* places of main.py that call it.                                         *)
(*                                                                         *)
(* Strings whose characters matter (job ids, file names) are sequences of  *)
(* one-character strings.  A Python dict read from or written to a         *)
(* checkpoint file is a record with a field "present" naming the keys the  *)
(* dict holds; the value of a key that is not present is a fixed dummy.    *)
(***************************************************************************)
EXTENDS Integers, Sequences, FiniteSets, TLC

(***************************************************************************)
(* Bounds of the model                                                     *)
(***************************************************************************)
\* the keys (remote id + '_' + name) of the items of a job
MaxKeys == 2

Threads == {"t1", "t2"}
Keys == {"k" \o ToString(i) : i \in 1..MaxKeys}
KeyOrder == [i \in 1..MaxKeys |-> "k" \o ToString(i)]

(***************************************************************************)
(* Job ids.  IdCollA and IdCollB differ in one character and are both      *)
(* accepted by validate_google_drive_url's pattern [a-zA-Z0-9_-]+.         *)
(***************************************************************************)
IdUnsafe == "a/..:b"
IdCollA == "TEXTCOLLBYfGiJUETHQ4hAcKSMd5zYpgqf1YRDhkmxHkhPWptrkoyz28wnI9V0aHeAuaKnak"
IdCollB == "TEXTCOLLBYfGiJUETHQ4hEcKSMd5zYpgqf1YRDhkmxHkhPWptrkoyz28wnI9V0aHeAuaKnak"
FolderIds == {IdUnsafe, IdCollA, IdCollB}

\* str.encode(): the characters of a job id
encode(folder_id) ==
    CASE folder_id = IdUnsafe -> <<"a", "/", ".", ".", ":", "b">>
      [] folder_id = IdCollA ->
           <<"T", "E", "X", "T", "C", "O", "L", "L", "B", "Y", "f", "G", "i", "J", "U", "E", "T", "H",
             "Q", "4", "h", "A", "c", "K", "S", "M", "d", "5", "z", "Y", "p", "g", "q", "f", "1", "Y",
             "R", "D", "h", "k", "m", "x", "H", "k", "h", "P", "W", "p", "t", "r", "k", "o", "y", "z",
             "2", "8", "w", "n", "I", "9", "V", "0", "a", "H", "e", "A", "u", "a", "K", "n", "a", "k">>
      [] folder_id = IdCollB ->
           <<"T", "E", "X", "T", "C", "O", "L", "L", "B", "Y", "f", "G", "i", "J", "U", "E", "T", "H",
             "Q", "4", "h", "E", "c", "K", "S", "M", "d", "5", "z", "Y", "p", "g", "q", "f", "1", "Y",
             "R", "D", "h", "k", "m", "x", "H", "k", "h", "P", "W", "p", "t", "r", "k", "o", "y", "z",
             "2", "8", "w", "n", "I", "9", "V", "0", "a", "H", "e", "A", "u", "a", "K", "n", "a", "k">>

\* hashlib.md5(bytes).hexdigest(): the digests hashlib computes for the job
\* ids of the model, character by character
md5_hexdigest(bytes) ==
    CASE bytes = encode(IdUnsafe) ->
           <<"8", "f", "3", "f", "9", "0", "a", "a", "7", "a", "8", "b", "3", "a", "7", "b",
             "9", "a", "b", "1", "a", "7", "2", "e", "f", "a", "2", "1", "6", "1", "3", "6">>
      [] bytes = encode(IdCollA) ->
           <<"f", "a", "a", "d", "4", "9", "8", "6", "6", "e", "9", "4", "9", "8", "f", "c",
             "1", "7", "1", "9", "f", "5", "2", "8", "9", "e", "7", "a", "0", "2", "6", "9">>
      [] bytes = encode(IdCollB) ->
           <<"f", "a", "a", "d", "4", "9", "8", "6", "6", "e", "9", "4", "9", "8", "f", "c",
             "1", "7", "1", "9", "f", "5", "2", "8", "9", "e", "7", "a", "0", "2", "6", "9">>

checkpoint_dir == ".checkpoints"

\* the file name f"checkpoint_{safe_id}.json"
CheckpointFileName(safe_id) == <<"checkpoint_">> \o safe_id \o <<".json">>

\* CheckpointManager._get_checkpoint_path
_get_checkpoint_path(folder_id) ==
    <<checkpoint_dir>> \o CheckpointFileName(md5_hexdigest(encode(folder_id)))

\* a faulty variant: the record is written to the checkpoint file itself
DirectPath(checkpoint_path) == checkpoint_path

\* checkpoint_path + '.tmp'
TempPath(checkpoint_path) == checkpoint_path \o <<".tmp">>

\* f"{checkpoint_path}.corrupted_{timestamp}"
BackupPath(checkpoint_path, timestamp) == checkpoint_path \o <<".corrupted_", timestamp>>

(***************************************************************************)
(* Python values                                                           *)
(***************************************************************************)
\* None where a set is expected, and None where a string is expected
NoneSet == {"<None>"}
NoneStr == "<None>"

\* the orders a set can iterate its elements in
ListsOf(s) == {q \in [1..Cardinality(s) -> s] : \A i, j \in 1..Cardinality(s) : q[i] = q[j] => i = j}

\* list(s): the elements of the set in the order the process's string hashing
\* makes sets iterate them
list(s, order) == SelectSeq(order, LAMBDA k : k \in s)

\* set(l)
SetOf(l) == {l[i] : i \in 1..Len(l)}

\* datetime.now().isoformat() and datetime.now().strftime("%Y%m%d_%H%M%S");
\* the wall clock does not move in the model
now_isoformat == "2025-01-01T00:00:00"
now_strftime == "20250101_000000"

(***************************************************************************)
(* The checkpoint dict                                                     *)
(***************************************************************************)
\* required_fields of load_checkpoint
required_fields ==
    {"version", "folder_id", "destination_path", "timestamp",
     "completed_files", "failed_files", "checksum"}

\* the keys save_checkpoint writes
SavedFields == required_fields \cup {"total_completed", "total_failed"}

\* the values of a 'checksum' key that are no digest: the empty string and None
EmptyStr == <<>>
NoneChecksum == <<NoneStr>>

\* a dict with the keys `present`
Dict(present, version, folder_id, destination_path, timestamp, completed_files, failed_files, total_completed, total_failed, checksum) ==
    [present |-> present,
     version |-> IF "version" \in present THEN version ELSE "",
     folder_id |-> IF "folder_id" \in present THEN folder_id ELSE "",
     destination_path |-> IF "destination_path" \in present THEN destination_path ELSE "",
     timestamp |-> IF "timestamp" \in present THEN timestamp ELSE "",
     completed_files |-> IF "completed_files" \in present THEN completed_files ELSE <<>>,
     failed_files |-> IF "failed_files" \in present THEN failed_files ELSE <<>>,
     total_completed |-> IF "total_completed" \in present THEN total_completed ELSE 0,
     total_failed |-> IF "total_failed" \in present THEN total_failed ELSE 0,
     checksum |-> IF "checksum" \in present THEN checksum ELSE <<>>]

NoDict == Dict({}, "", "", "", "", <<>>, <<>>, 0, 0, <<>>)

\* del data[key] / data.pop(key, None)
Del(data, key) ==
    Dict(data.present \ {key}, data.version, data.folder_id, data.destination_path,
         data.timestamp, data.completed_files, data.failed_files,
         data.total_completed, data.total_failed, data.checksum)

\* hashlib.sha256(json.dumps(data, sort_keys=True).encode()).hexdigest(): one
\* digest per content (the keys and their values, the lists in their order),
\* different from every checksum that is no digest
sha256_of_dumps(data) ==
    <<data.present, data.version, data.folder_id, data.destination_path,
      data.timestamp, data.completed_files, data.failed_files,
      data.total_completed, data.total_failed, data.checksum>>

\* a checksum no content has ('invalid_checksum_value')
InvalidChecksum == <<"invalid_checksum_value">>

(***************************************************************************)
(* Files                                                                   *)
(***************************************************************************)
\* kind: "dict"        a JSON object
\*       "scalar"      valid JSON that is no container (null, a number)
\*       "garbage"     text that is no JSON
\*       "partial"     a JSON text cut short: a write in progress or broken off
\*       "undecodable" bytes that are no UTF-8
\* mode: "umask" as created, "0o600" after os.chmod(path, 0o600)
File(kind, data, mode) == [kind |-> kind, data |-> data, mode |-> mode]

\* a file holding dict `data` with its checksum key set to `checksum`
WithChecksum(data, checksum) ==
    [data EXCEPT !.checksum = checksum, !.present = data.present \cup {"checksum"}]

\* dict `data` with the checksum of its content, as the tests compute it
Signed(data) == WithChecksum(data, sha256_of_dumps(data))

\* the files an outside writer (an editor, a crash, an older release, a test)
\* can leave at the checkpoint path of job `folder_id`
OutsideDicts(folder_id) ==
    LET body(version, present) ==
            Dict(present, version, folder_id, "/d1", "2023-01-01T00:00:00",
                 <<"k1">>, <<>>, 1, 0, <<>>)
    IN  { WithChecksum(body("2.0", SavedFields), InvalidChecksum),
          WithChecksum(body("2.0", SavedFields), EmptyStr),
          WithChecksum(body("2.0", SavedFields), NoneChecksum),
          Signed(body("1.0", required_fields \ {"checksum"})),
          Signed(body("1.0", SavedFields \ {"checksum"})),
          body("2.0", {"folder_id"}) }

OutsideFiles(folder_id) ==
    {File("dict", d, "umask") : d \in OutsideDicts(folder_id)}
    \cup {File(k, NoDict, "umask") : k \in {"scalar", "garbage", "undecodable"}}

(***************************************************************************)
(* State                                                                   *)
(***************************************************************************)
VARIABLES
    fs,       \* the files of the disk: path -> file (an absent path is no file)
    lock,     \* CheckpointManager._lock: "free" or the thread that holds it
    pc,       \* per thread: where it is in save/load/clear, "idle" outside
    call,     \* per thread: arguments, locals and result of its latest call
    job,      \* per thread: the job id and the job state it calls the store with
    step,     \* per thread: the calls it has made
    main,     \* main.py: where main() is, its sets, the module's globals
    cls,      \* classify_files: its arguments and the buckets it returned
    retry,    \* retry_on_failure: one call of a wrapped operation
    sched,    \* main.py: the buckets of the run and the scheduler of a bucket
    disk,     \* "ok", or "failing": I/O calls may raise OSError
    hist      \* the latest completed call or outside write on the store

aux == <<cls, retry, sched>>
vars == <<fs, lock, pc, call, job, step, main, aux, disk, hist, aux>>

\* files as a function with a changing domain
Exists(f, path) == path \in DOMAIN f
Put(f, path, file) == [q \in DOMAIN f \cup {path} |-> IF q = path THEN file ELSE f[q]]
Remove(f, path) == [q \in DOMAIN f \ {path} |-> f[q]]
NoFile == File("absent", NoDict, "umask")
FileAt(f, path) == IF Exists(f, path) THEN f[path] ELSE NoFile

NoHist == [op |-> "none", folder_id |-> "", val |-> "", by |-> ""]

\* a fresh call record.  val: "" while the call runs, then "True", "False",
\* "None" (load found nothing usable), "dict" (load's record) or "raised"
NewCall(op, folder_id, completed_files, failed_files, destination_path) ==
    [op |-> op, folder_id |-> folder_id, completed_files |-> completed_files,
     failed_files |-> failed_files, destination_path |-> destination_path,
     checkpoint_path |-> <<>>, checkpoint_data |-> NoDict, val |-> "",
     read |-> NoFile,          \* the file load read
     before |-> NoFile,        \* the checkpoint file when save entered its lock
     prev |-> NoHist,          \* what happened on the store right before this call
     faulted |-> FALSE,        \* an injected I/O error hit this call
     replaces |-> 0,           \* os.replace calls that succeeded
     temp_left |-> FALSE,      \* the temp file existed when save returned
     remove_raised |-> FALSE,  \* save's os.remove of the temp file raised
     backed_up |-> FALSE,      \* load's backup copy was made
     gone |-> FALSE]           \* the checkpoint file was absent when clear returned

NoCall == NewCall("none", "", {}, {}, "")

\* main.py lines 53-58: the module's globals before main() runs, and main()'s
\* locals.  pc is where main() is, handler where signal_handler is
NoMain ==
    [pc |-> "start", handler |-> "none", exc |-> "",
     interrupted |-> FALSE, checkpoint_mgr |-> FALSE,
     current_folder_id |-> NoneStr, current_completed_files |-> NoneSet,
     current_failed_files |-> NoneSet, current_destination_path |-> NoneStr,
     resume |-> FALSE, completed_files |-> {}, failed_files |-> {}]

\* nothing classified, no wrapped operation called, no bucket scheduled
NoCls == [pc |-> "none"]
NoRetry == [pc |-> "none"]
NoSched == [pc |-> "none"]
InitAux == cls = NoCls /\ retry = NoRetry /\ sched = NoSched

InitStore ==
    /\ fs = <<>>
    /\ main = NoMain
    /\ InitAux
    /\ lock = "free"
    /\ pc = [t \in Threads |-> "idle"]
    /\ call = [t \in Threads |-> NoCall]
    /\ step = [t \in Threads |-> 0]
    /\ disk = "ok"
    /\ hist = NoHist

\* this I/O call raises OSError (the disk is failing) / does not
Fault == disk = "failing" /\ disk' = disk
NoFault == disk' = disk

\* `with self._lock:` entered and left
\* a faulty variant: entering without waiting for the lock
AcquireUnlocked(t) == lock' = t

Acquire(t) == lock = "free" /\ lock' = t
Release(t) == lock' = "free"

\* thread t goes on to label `next` with its call record changed to `c`
Goto(t, next, c) ==
    /\ pc' = [pc EXCEPT ![t] = next]
    /\ call' = [call EXCEPT ![t] = c]
    /\ UNCHANGED <<lock, hist>>

\* thread t's call returns (or raises) with its record `c`; its locals end,
\* the lock is left
Return(t, c) ==
    /\ pc' = [pc EXCEPT ![t] = "idle"]
    /\ call' = [call EXCEPT ![t] =
                  [c EXCEPT !.checkpoint_data = IF c.val = "dict" THEN c.checkpoint_data
                                                ELSE NoDict]]
    /\ Release(t)
    /\ hist' = [op |-> c.op, folder_id |-> c.folder_id, val |-> c.val, by |-> t]

(***************************************************************************)
(* save_checkpoint                                                         *)
(***************************************************************************)
\* a caller calls save_checkpoint(folder_id, completed_files, failed_files, destination_path)
SaveCall(t, folder_id, completed_files, failed_files, destination_path) ==
    /\ pc[t] = "idle"
    /\ pc' = [pc EXCEPT ![t] = "save_enter"]
    /\ call' = [call EXCEPT ![t] =
                  NewCall("save", folder_id, completed_files, failed_files, destination_path)]
    /\ UNCHANGED <<fs, lock, job, disk, hist>>

\* line 66: with self._lock
SaveEnter(t) ==
    /\ pc[t] = "save_enter"
    /\ Acquire(t)
    /\ pc' = [pc EXCEPT ![t] = "save_build"]
    /\ call' = [call EXCEPT ![t].prev = hist,
                            ![t].before = FileAt(fs, _get_checkpoint_path(call[t].folder_id))]
    /\ UNCHANGED <<fs, job, step, main, aux, disk, hist>>

\* lines 70-80: the dict save builds, its checksum still None
CheckpointData(folder_id, completed_files, failed_files, destination_path, order) ==
    Dict(SavedFields, "2.0", folder_id, destination_path, now_isoformat,
         list(completed_files, order), list(failed_files, order),
         Cardinality(completed_files), Cardinality(failed_files), NoneChecksum)

\* lines 67-80: the paths and the dict; list(None) raises TypeError outside the try
SaveBuild(t) ==
    /\ pc[t] = "save_build"
    /\ LET c == call[t] IN
       IF c.completed_files = NoneSet \/ c.failed_files = NoneSet
       THEN Return(t, [c EXCEPT !.val = "raised"])
       ELSE Goto(t, "save_open",
                 [c EXCEPT !.checkpoint_path = _get_checkpoint_path(c.folder_id),
                           !.checkpoint_data =
                              CheckpointData(c.folder_id, c.completed_files, c.failed_files,
                                             c.destination_path, job[t].order)])
    /\ UNCHANGED <<fs, job, step, main, aux, disk>>

\* a faulty variant: the checksum is taken of the dict with its 'checksum': None key
ChecksumWithKey(checkpoint_data) == sha256_of_dumps(checkpoint_data)

\* lines 84-88: the checksum of the dict without its 'checksum' key
ChecksumOfSave(checkpoint_data) == sha256_of_dumps(Del(checkpoint_data, "checksum"))

\* lines 84-91: the checksum, then open(temp_path, 'w') creates or truncates the temp file
SaveOpen(t) ==
    /\ pc[t] = "save_open"
    /\ LET c == call[t]
           temp == TempPath(c.checkpoint_path)
           data == [c.checkpoint_data EXCEPT !.checksum = ChecksumOfSave(c.checkpoint_data)]
       IN  \/ /\ NoFault
              /\ fs' = Put(fs, temp, File("partial", NoDict, FileAt(fs, temp).mode))
              /\ Goto(t, "save_dump", [c EXCEPT !.checkpoint_data = data])
           \/ /\ Fault
              /\ fs' = fs
              /\ Goto(t, "save_except", [c EXCEPT !.checkpoint_data = data, !.faulted = TRUE])
    /\ UNCHANGED <<job, step, main, aux>>

\* lines 92-94: json.dump, flush, fsync; an error leaves what was written so far
SaveDump(t) ==
    /\ pc[t] = "save_dump"
    /\ LET c == call[t]
           temp == TempPath(c.checkpoint_path)
       IN  \/ /\ NoFault
              /\ fs' = IF Exists(fs, temp)
                       THEN Put(fs, temp, File("dict", c.checkpoint_data, fs[temp].mode))
                       ELSE fs
              /\ Goto(t, "save_replace", c)
           \/ /\ Fault
              /\ fs' = fs
              /\ Goto(t, "save_except", [c EXCEPT !.faulted = TRUE])
    /\ UNCHANGED <<job, step, main, aux>>

\* line 97: os.replace(temp_path, checkpoint_path)
SaveReplace(t) ==
    /\ pc[t] = "save_replace"
    /\ LET c == call[t]
           temp == TempPath(c.checkpoint_path)
       IN  \/ /\ Exists(fs, temp)
              /\ NoFault
              /\ fs' = Remove(Put(fs, c.checkpoint_path, fs[temp]), temp)
              /\ Goto(t, "save_chmod", [c EXCEPT !.replaces = c.replaces + 1])
           \/ /\ ~Exists(fs, temp)
              /\ NoFault
              /\ fs' = fs
              /\ Goto(t, "save_except", c)
           \/ /\ Fault
              /\ fs' = fs
              /\ Goto(t, "save_except", [c EXCEPT !.faulted = TRUE])
    /\ UNCHANGED <<job, step, main, aux>>

\* lines 100-106: os.chmod(checkpoint_path, 0o600), return True
SaveChmod(t) ==
    /\ pc[t] = "save_chmod"
    /\ LET c == call[t]
       IN  \/ /\ Exists(fs, c.checkpoint_path)
              /\ NoFault
              /\ fs' = Put(fs, c.checkpoint_path,
                           [fs[c.checkpoint_path] EXCEPT !.mode = "0o600"])
              /\ Return(t, [c EXCEPT !.val = "True",
                                     !.temp_left = Exists(fs, TempPath(c.checkpoint_path))])
           \/ /\ ~Exists(fs, c.checkpoint_path)
              /\ NoFault
              /\ fs' = fs
              /\ Goto(t, "save_except", c)
           \/ /\ Fault
              /\ fs' = fs
              /\ Goto(t, "save_except", [c EXCEPT !.faulted = TRUE])
    /\ UNCHANGED <<job, step, main, aux>>

\* lines 108-116: except Exception: remove the temp file if it exists, return False
SaveExcept(t) ==
    /\ pc[t] = "save_except"
    /\ LET c == call[t]
           temp == TempPath(c.checkpoint_path)
       IN  \/ /\ Exists(fs, temp)
              /\ NoFault
              /\ fs' = Remove(fs, temp)
              /\ Return(t, [c EXCEPT !.val = "False", !.temp_left = Exists(fs', temp)])
           \/ /\ Exists(fs, temp)
              /\ Fault
              /\ fs' = fs
              /\ Return(t, [c EXCEPT !.val = "False", !.temp_left = Exists(fs', temp),
                                     !.remove_raised = TRUE])
           \/ /\ ~Exists(fs, temp)
              /\ NoFault
              /\ fs' = fs
              /\ Return(t, [c EXCEPT !.val = "False", !.temp_left = Exists(fs', temp)])
    /\ UNCHANGED <<job, step, main, aux>>

(***************************************************************************)
(* load_checkpoint                                                         *)
(***************************************************************************)
LoadCall(t, folder_id) ==
    /\ pc[t] = "idle"
    /\ pc' = [pc EXCEPT ![t] = "load_enter"]
    /\ call' = [call EXCEPT ![t] = NewCall("load", folder_id, {}, {}, "")]
    /\ UNCHANGED <<fs, lock, job, disk, hist>>

\* line 130: with self._lock
LoadEnter(t) ==
    /\ pc[t] = "load_enter"
    /\ Acquire(t)
    /\ pc' = [pc EXCEPT ![t] = "load_exists"]
    /\ call' = [call EXCEPT ![t].prev = hist,
                            ![t].checkpoint_path = _get_checkpoint_path(call[t].folder_id)]
    /\ UNCHANGED <<fs, job, step, main, aux, disk, hist>>

\* lines 131-135: no file, return None
LoadExists(t) ==
    /\ pc[t] = "load_exists"
    /\ LET c == call[t]
       IN  IF Exists(fs, c.checkpoint_path)
           THEN Goto(t, "load_read", c)
           ELSE Return(t, [c EXCEPT !.val = "None"])
    /\ UNCHANGED <<fs, job, step, main, aux, disk>>

\* a checksum value Python takes as false (None, "")
Falsy(checksum) == checksum \in {EmptyStr, NoneChecksum}

\* CheckpointManager._validate_checkpoint_integrity
_validate_checkpoint_integrity(checkpoint_data) ==
    IF Falsy(checkpoint_data.checksum)
    THEN TRUE
    ELSE checkpoint_data.checksum = sha256_of_dumps(Del(checkpoint_data, "checksum"))

\* lines 162-165: the log line reads checkpoint_data['total_completed'] and
\* checkpoint_data['checksum'][:12]; KeyError or TypeError when it cannot
LogLineRaises(checkpoint_data) ==
    \/ "total_completed" \notin checkpoint_data.present
    \/ checkpoint_data.checksum = NoneChecksum

\* what lines 137-174 do with the file they read:
\*   "backup"  corrupt: back the file up and return None
\*   "none"    except Exception: return None
\*   "dict"    return the dict
LoadOutcome(file) ==
    CASE file.kind \in {"garbage", "partial"} -> "backup"     \* json.JSONDecodeError
      [] file.kind = "undecodable" -> "none"                  \* UnicodeDecodeError
      [] file.kind = "scalar" -> "none"                       \* TypeError of `field in data`
      [] file.kind = "dict" ->
           IF ~(required_fields \subseteq file.data.present) THEN "backup"
           ELSE IF ~_validate_checkpoint_integrity(file.data) THEN "backup"
           ELSE IF LogLineRaises(file.data) THEN "none"
           ELSE "dict"

\* lines 137-174: open and json.load the file, validate it; a corrupt file is
\* backed up by _backup_corrupted_checkpoint (lines 238-251), whose own
\* failure is swallowed (the disk fails between the read and the copy)
LoadRead(t) ==
    /\ pc[t] = "load_read"
    /\ LET c == call[t]
           backup_path == BackupPath(c.checkpoint_path, now_strftime)
       IN  \/ /\ Exists(fs, c.checkpoint_path)
              /\ disk = "ok"
              /\ LET file == fs[c.checkpoint_path]
                     r == [c EXCEPT !.read = file]
                 IN  CASE LoadOutcome(file) = "backup" ->
                            \/ /\ fs' = Put(fs, backup_path, file)
                               /\ disk' = disk
                               /\ Return(t, [r EXCEPT !.val = "None", !.backed_up = TRUE])
                            \/ /\ fs' = fs
                               /\ disk' = "failing"
                               /\ Return(t, [r EXCEPT !.val = "None", !.faulted = TRUE])
                       [] LoadOutcome(file) = "none" ->
                            /\ UNCHANGED <<fs, disk>>
                            /\ Return(t, [r EXCEPT !.val = "None"])
                       [] LoadOutcome(file) = "dict" ->
                            /\ UNCHANGED <<fs, disk>>
                            /\ Return(t, [r EXCEPT !.val = "dict",
                                                   !.checkpoint_data = file.data])
           \/ /\ ~Exists(fs, c.checkpoint_path)
              /\ NoFault
              /\ fs' = fs
              /\ Return(t, [c EXCEPT !.val = "None"])
           \/ /\ Fault
              /\ fs' = fs
              /\ Return(t, [c EXCEPT !.val = "None", !.faulted = TRUE])
    /\ UNCHANGED <<job, step, main, aux>>

(***************************************************************************)
(* clear_checkpoint                                                        *)
(***************************************************************************)
ClearCall(t, folder_id) ==
    /\ pc[t] = "idle"
    /\ pc' = [pc EXCEPT ![t] = "clear_enter"]
    /\ call' = [call EXCEPT ![t] = NewCall("clear", folder_id, {}, {}, "")]
    /\ UNCHANGED <<fs, lock, job, disk, hist>>

\* line 187: with self._lock
ClearEnter(t) ==
    /\ pc[t] = "clear_enter"
    /\ Acquire(t)
    /\ pc' = [pc EXCEPT ![t] = "clear_exists"]
    /\ call' = [call EXCEPT ![t].prev = hist,
                            ![t].checkpoint_path = _get_checkpoint_path(call[t].folder_id)]
    /\ UNCHANGED <<fs, job, step, main, aux, disk, hist>>

\* a faulty variant: clearing a checkpoint that does not exist is an error
ClearExistsStrict(t) ==
    /\ pc[t] = "clear_exists"
    /\ LET c == call[t]
       IN  IF Exists(fs, c.checkpoint_path)
           THEN Goto(t, "clear_remove", c)
           ELSE Return(t, [c EXCEPT !.val = "False", !.gone = ~Exists(fs, c.checkpoint_path)])
    /\ UNCHANGED <<fs, job, step, main, aux, disk>>

\* lines 188-190 and 199: no file, return True
ClearExists(t) ==
    /\ pc[t] = "clear_exists"
    /\ LET c == call[t]
       IN  IF Exists(fs, c.checkpoint_path)
           THEN Goto(t, "clear_remove", c)
           ELSE Return(t, [c EXCEPT !.val = "True", !.gone = ~Exists(fs, c.checkpoint_path)])
    /\ UNCHANGED <<fs, job, step, main, aux, disk>>

\* lines 191-197: os.remove(checkpoint_path); True, or False when it raises
ClearRemove(t) ==
    /\ pc[t] = "clear_remove"
    /\ LET c == call[t]
       IN  \/ /\ Exists(fs, c.checkpoint_path)
              /\ NoFault
              /\ fs' = Remove(fs, c.checkpoint_path)
              /\ Return(t, [c EXCEPT !.val = "True", !.gone = ~Exists(fs', c.checkpoint_path)])
           \/ /\ ~Exists(fs, c.checkpoint_path)
              /\ NoFault
              /\ fs' = fs
              /\ Return(t, [c EXCEPT !.val = "False", !.gone = ~Exists(fs', c.checkpoint_path)])
           \/ /\ Fault
              /\ fs' = fs
              /\ Return(t, [c EXCEPT !.val = "False", !.faulted = TRUE])
    /\ UNCHANGED <<job, step, main, aux>>

(***************************************************************************)
(* The environment                                                         *)
(***************************************************************************)
\* something other than the store writes a file at a job's checkpoint path,
\* as the unit tests do before they call load_checkpoint
OutsideWrite(folder_id, file) ==
    /\ \A t \in Threads : pc[t] = "idle"
    /\ hist = NoHist
    /\ fs' = Put(fs, _get_checkpoint_path(folder_id), file)
    /\ hist' = [NoHist EXCEPT !.op = "outside", !.folder_id = folder_id]
    /\ UNCHANGED <<lock, pc, call, job, step, main, aux, disk>>

\* the disk starts to fail (it fills up, is remounted read-only, loses
\* permissions): from then on any I/O call may raise
DiskFails ==
    /\ disk = "ok"
    /\ disk' = "failing"
    /\ UNCHANGED <<fs, lock, pc, call, job, step, main, aux, hist>>

(***************************************************************************)
(* Threads calling one store concurrently, each for its job                *)
(***************************************************************************)
JobOf(folder_id, completed_files, failed_files, destination_path, order) ==
    [folder_id |-> folder_id, completed_files |-> completed_files,
     failed_files |-> failed_files, destination_path |-> destination_path,
     order |-> order]

\* the job states the two threads save: different ones
JobState1 == [completed_files |-> {"k1", "k2"}, failed_files |-> {}, destination_path |-> "/d1"]
JobState2 == [completed_files |-> {"k1"}, failed_files |-> {"k2"}, destination_path |-> "/d2"]

\* the thread's next call is save, then load, then clear, as in
\* test_concurrent_checkpoint_operations
ScriptSave(t) ==
    /\ step[t] = 0
    /\ step' = [step EXCEPT ![t] = step[t] + 1]
    /\ UNCHANGED <<main, aux>>
    /\ SaveCall(t, job[t].folder_id, job[t].completed_files, job[t].failed_files,
                job[t].destination_path)

ScriptLoad(t) ==
    /\ step[t] = 1
    /\ step' = [step EXCEPT ![t] = step[t] + 1]
    /\ UNCHANGED <<main, aux>>
    /\ LoadCall(t, job[t].folder_id)

ScriptClear(t) ==
    /\ step[t] = 2
    /\ step' = [step EXCEPT ![t] = step[t] + 1]
    /\ UNCHANGED <<main, aux>>
    /\ ClearCall(t, job[t].folder_id)

Init ==
    /\ InitStore
    /\ \E folder_id \in FolderIds, order \in ListsOf(Keys) :
         job = [t \in Threads |->
                  IF t = "t1"
                  THEN JobOf(IdCollA, JobState1.completed_files, JobState1.failed_files,
                             JobState1.destination_path, order)
                  ELSE JobOf(folder_id, JobState2.completed_files, JobState2.failed_files,
                             JobState2.destination_path, order)]

Next ==
    \/ \E t \in Threads : ScriptSave(t)
    \/ \E t \in Threads : SaveEnter(t)
    \/ \E t \in Threads : SaveBuild(t)
    \/ \E t \in Threads : SaveOpen(t)
    \/ \E t \in Threads : SaveDump(t)
    \/ \E t \in Threads : SaveReplace(t)
    \/ \E t \in Threads : SaveChmod(t)
    \/ \E t \in Threads : SaveExcept(t)
    \/ \E t \in Threads : ScriptLoad(t)
    \/ \E t \in Threads : LoadEnter(t)
    \/ \E t \in Threads : LoadExists(t)
    \/ \E t \in Threads : LoadRead(t)
    \/ \E t \in Threads : ScriptClear(t)
    \/ \E t \in Threads : ClearEnter(t)
    \/ \E t \in Threads : ClearExists(t)
    \/ \E t \in Threads : ClearRemove(t)
    \/ DiskFails

Spec == Init /\ [][Next]_vars

(***************************************************************************)
(* One caller, any arguments, calls in any order                           *)
(***************************************************************************)
Caller == "t1"
SeqFolderIds == {IdUnsafe, IdCollA}
SeqDest == "/d1"

Save(t) ==
    /\ SaveCall(t, job[t].folder_id, job[t].completed_files, job[t].failed_files,
                job[t].destination_path)
    /\ UNCHANGED <<step, main, aux>>

Load(t) == LoadCall(t, job[t].folder_id) /\ UNCHANGED <<step, main, aux>>

Clear(t) == ClearCall(t, job[t].folder_id) /\ UNCHANGED <<step, main, aux>>

InitSeq ==
    /\ InitStore
    /\ \E folder_id \in SeqFolderIds, completed_files \in SUBSET Keys,
          failed_files \in SUBSET Keys, order \in ListsOf(Keys) :
         job = [t \in Threads |->
                  JobOf(folder_id, completed_files, failed_files, SeqDest, order)]

NextSeq ==
    \/ Save(Caller)
    \/ SaveEnter(Caller)
    \/ SaveBuild(Caller)
    \/ SaveOpen(Caller)
    \/ SaveDump(Caller)
    \/ SaveReplace(Caller)
    \/ SaveChmod(Caller)
    \/ SaveExcept(Caller)
    \/ Load(Caller)
    \/ LoadEnter(Caller)
    \/ LoadExists(Caller)
    \/ LoadRead(Caller)
    \/ Clear(Caller)
    \/ ClearEnter(Caller)
    \/ ClearExists(Caller)
    \/ ClearRemove(Caller)
    \/ DiskFails

SpecSeq == InitSeq /\ [][NextSeq]_vars

(***************************************************************************)
(* One caller, any file at the checkpoint path                             *)
(***************************************************************************)
InitFiles ==
    /\ InitStore
    /\ job = [t \in Threads |->
                JobOf(IdUnsafe, JobState2.completed_files, JobState2.failed_files,
                      JobState2.destination_path, KeyOrder)]

NextFiles ==
    \/ \E file \in OutsideFiles(job[Caller].folder_id) :
          OutsideWrite(job[Caller].folder_id, file)
    \/ Save(Caller)
    \/ SaveEnter(Caller)
    \/ SaveBuild(Caller)
    \/ SaveOpen(Caller)
    \/ SaveDump(Caller)
    \/ SaveReplace(Caller)
    \/ SaveChmod(Caller)
    \/ SaveExcept(Caller)
    \/ Load(Caller)
    \/ LoadEnter(Caller)
    \/ LoadExists(Caller)
    \/ LoadRead(Caller)
    \/ Clear(Caller)
    \/ ClearEnter(Caller)
    \/ ClearExists(Caller)
    \/ ClearRemove(Caller)
    \/ DiskFails

SpecFiles == InitFiles /\ [][NextFiles]_vars

(***************************************************************************)
(* main.py: main() and the SIGINT handler around one store                 *)
(***************************************************************************)
\* main() runs on the main thread; the handler runs on the same thread, in a
\* frame on top of whatever main() was executing, which waits meanwhile
MainThread == "t1"
HandlerFrame == "t2"
MainRuns == main.handler = "none" /\ main.pc \notin {"done", "exit"}
MainIdle == MainRuns /\ pc[MainThread] = "idle"
MainGoto(next) == [main EXCEPT !.pc = next]
StoreStays == UNCHANGED <<fs, lock, pc, call, job, step, disk, hist, aux>>

\* lines 776-777: current_folder_id = folder_id
MainValidate ==
    /\ MainRuns /\ main.pc = "start"
    /\ main' = [MainGoto("manager") EXCEPT !.current_folder_id = job[MainThread].folder_id]
    /\ StoreStays

\* line 850: checkpoint_mgr = CheckpointManager()
MainManager ==
    /\ MainRuns /\ main.pc = "manager"
    /\ main' = [MainGoto("clear") EXCEPT !.checkpoint_mgr = TRUE]
    /\ StoreStays

\* lines 872-873: if args.clear_checkpoint: clear_checkpoint(folder_id)
MainClear ==
    /\ MainIdle /\ main.pc = "clear"
    /\ main' = MainGoto("load")
    /\ \/ ClearCall(MainThread, job[MainThread].folder_id) /\ UNCHANGED <<step, aux>>
       \/ StoreStays

\* line 876: checkpoint = load_checkpoint(folder_id) if args.resume else None
MainLoad ==
    /\ MainIdle /\ main.pc = "load"
    /\ \/ /\ main' = [MainGoto("loaded") EXCEPT !.resume = TRUE]
          /\ LoadCall(MainThread, job[MainThread].folder_id) /\ UNCHANGED <<step, aux>>
       \/ /\ main' = [MainGoto("loaded") EXCEPT !.resume = FALSE]
          /\ StoreStays

\* the checkpoint main() holds after line 876
Checkpoint ==
    IF main.resume /\ call[MainThread].op = "load" /\ call[MainThread].val = "dict"
    THEN call[MainThread].checkpoint_data ELSE NoDict

\* lines 877-878: the sets of the checkpoint, or empty sets
MainLoaded ==
    /\ MainIdle /\ main.pc = "loaded"
    /\ main' = [MainGoto("set_completed") EXCEPT
                  !.completed_files = IF Checkpoint # NoDict
                                      THEN SetOf(Checkpoint.completed_files) ELSE {},
                  !.failed_files = IF Checkpoint # NoDict
                                   THEN SetOf(Checkpoint.failed_files) ELSE {}]
    /\ StoreStays

\* line 880: current_completed_files = completed_files
MainSetCompleted ==
    /\ MainRuns /\ main.pc = "set_completed"
    /\ main' = [MainGoto("set_failed") EXCEPT !.current_completed_files = main.completed_files]
    /\ StoreStays

\* line 881: current_failed_files = failed_files
MainSetFailed ==
    /\ MainRuns /\ main.pc = "set_failed"
    /\ main' = [MainGoto("prompt") EXCEPT !.current_failed_files = main.failed_files]
    /\ StoreStays

\* lines 883-900: with a checkpoint, the user resumes or starts over (both
\* sets are cleared in place, the globals name the same sets)
MainPrompt ==
    /\ MainRuns /\ main.pc = "prompt"
    /\ \/ main' = MainGoto("destination")
       \/ /\ Checkpoint # NoDict
          /\ main' = [MainGoto("destination") EXCEPT
                        !.completed_files = {}, !.failed_files = {},
                        !.current_completed_files = {}, !.current_failed_files = {}]
    /\ StoreStays

\* lines 920-922: current_destination_path = str(final_destination)
MainDestination ==
    /\ MainRuns /\ main.pc = "destination"
    /\ main' = [MainGoto("schedule") EXCEPT
                  !.current_destination_path = job[MainThread].destination_path]
    /\ StoreStays

\* lines 380-385: a worker thread records the outcome of its task in the
\* shared set (workers run whatever the main thread is doing)
WorkerAdds(file_key) ==
    /\ main.pc = "schedule"
    /\ file_key \notin main.completed_files \cup main.failed_files
    /\ \/ main' = [main EXCEPT !.completed_files = @ \cup {file_key},
                               !.current_completed_files = @ \cup {file_key}]
       \/ main' = [main EXCEPT !.failed_files = @ \cup {file_key},
                               !.current_failed_files = @ \cup {file_key}]
    /\ StoreStays

\* lines 1072-1077: the periodic save
MainPeriodicSave ==
    /\ MainIdle /\ main.pc = "schedule"
    /\ SaveCall(MainThread, job[MainThread].folder_id, main.completed_files,
                main.failed_files, main.current_destination_path)
    /\ UNCHANGED <<step, main, aux>>

\* lines 1095-1097: the final save
MainFinalSave ==
    /\ MainIdle /\ main.pc = "schedule"
    /\ SaveCall(MainThread, job[MainThread].folder_id, main.completed_files,
                main.failed_files, main.current_destination_path)
    /\ main' = MainGoto("report")
    /\ UNCHANGED <<step, aux>>

\* lines 1317-1323: clear the checkpoint when every task completed
MainReport ==
    /\ MainIdle /\ main.pc = "report"
    /\ main' = MainGoto("return")
    /\ IF Cardinality(main.completed_files) >= Cardinality(Keys) /\ main.failed_files = {}
       THEN ClearCall(MainThread, job[MainThread].folder_id) /\ UNCHANGED <<step, aux>>
       ELSE StoreStays

\* main() returns
MainReturn ==
    /\ MainIdle /\ main.pc = "return"
    /\ main' = MainGoto("done")
    /\ StoreStays

\* SIGINT is delivered (the handler is installed at line 682); line 184
Signal ==
    /\ MainRuns
    /\ main' = [main EXCEPT !.handler = "entered", !.interrupted = TRUE]
    /\ StoreStays

\* lines 194-200: the handler saves what the globals hold
HandlerSave ==
    /\ main.handler = "entered"
    /\ IF /\ main.checkpoint_mgr
          /\ main.current_folder_id # NoneStr
          /\ main.current_completed_files # NoneSet
       THEN /\ main' = [main EXCEPT !.handler = "saving"]
            /\ SaveCall(HandlerFrame, main.current_folder_id, main.current_completed_files,
                        main.current_failed_files, main.current_destination_path)
            /\ UNCHANGED <<step, aux>>
       ELSE /\ main' = [main EXCEPT !.handler = "raise"]
            /\ StoreStays

\* line 211: raise KeyboardInterrupt (or the exception the save raised): it
\* unwinds the handler and what main() was executing, which leaves the lock
\* if it was inside a `with self._lock`
HandlerRaise ==
    /\ \/ main.handler = "raise"
       \/ main.handler = "saving" /\ pc[HandlerFrame] = "idle"
    /\ main' = [main EXCEPT !.handler = "none", !.pc = "exit",
                            !.exc = IF main.handler = "saving" /\ call[HandlerFrame].val = "raised"
                                    THEN "TypeError" ELSE "KeyboardInterrupt"]
    /\ pc' = [pc EXCEPT ![MainThread] = "idle"]
    /\ call' = [call EXCEPT ![MainThread].val =
                  IF pc[MainThread] = "idle" THEN @ ELSE "unwound"]
    /\ lock' = IF lock = MainThread THEN "free" ELSE lock
    /\ UNCHANGED <<fs, job, step, disk, hist, aux>>

MainFolderId == IdCollA

\* the checkpoint an earlier run of the same job left
EarlierCheckpoint ==
    Signed(Dict(SavedFields, "2.0", MainFolderId, "/d1", "2023-01-01T00:00:00",
                <<"k1">>, <<>>, 1, 0, <<>>))

InitMain ==
    /\ lock = "free"
    /\ pc = [t \in Threads |-> "idle"]
    /\ call = [t \in Threads |-> NoCall]
    /\ step = [t \in Threads |-> 0]
    /\ disk = "ok"
    /\ hist = NoHist
    /\ main = NoMain
    /\ InitAux
    /\ job = [t \in Threads |-> JobOf(MainFolderId, {}, {}, "/d1", KeyOrder)]
    /\ \/ fs = <<>>
       \/ fs = Put(<<>>, _get_checkpoint_path(MainFolderId),
                   File("dict", EarlierCheckpoint, "0o600"))

NextMain ==
    \/ MainValidate
    \/ MainManager
    \/ MainClear
    \/ MainLoad
    \/ MainLoaded
    \/ MainSetCompleted
    \/ MainSetFailed
    \/ MainPrompt
    \/ MainDestination
    \/ \E file_key \in Keys : WorkerAdds(file_key)
    \/ MainPeriodicSave
    \/ MainFinalSave
    \/ MainReport
    \/ MainReturn
    \/ Signal
    \/ HandlerSave
    \/ HandlerRaise
    \/ \E t \in {MainThread, HandlerFrame} :
         /\ t = MainThread => MainRuns
         /\ \/ SaveEnter(t)
            \/ SaveBuild(t)
            \/ SaveOpen(t)
            \/ SaveDump(t)
            \/ SaveReplace(t)
            \/ SaveChmod(t)
            \/ SaveExcept(t)
    \/ MainRuns /\ LoadEnter(MainThread)
    \/ MainRuns /\ LoadExists(MainThread)
    \/ MainRuns /\ LoadRead(MainThread)
    \/ MainRuns /\ ClearEnter(MainThread)
    \/ MainRuns /\ ClearExists(MainThread)
    \/ MainRuns /\ ClearRemove(MainThread)
    \/ DiskFails

SpecMain == InitMain /\ [][NextMain]_vars

(***************************************************************************)
(* main.py: classify_files, after validators.py: validate_file_filters     *)
(***************************************************************************)
\* the items of the folder: file_info dicts with an id, a name, the
\* capabilities.canDownload flag and a mimeType
FileIds == {"id" \o ToString(i) : i \in 1..MaxKeys}
FileName == "a"
Shortcut == "application/vnd.google-apps.shortcut"
MimeTypes == {"video/mp4", "application/pdf", Shortcut, "application/vnd.google-apps.document"}
FileInfo(id, canDownload, mimeType) ==
    [id |-> id, name |-> FileName, canDownload |-> canDownload, mimeType |-> mimeType]

\* file_key = f"{file_info['id']}_{file_info['name']}"
file_key(file_info) == file_info.id \o "_" \o file_info.name

\* 'video' in mime_type
is_video(mime_type) == mime_type \in {"video/mp4"}

\* a classifier without the completed check of line 637
RouteNoResume(file_info, completed_files, only_videos, only_docs, only_view_only) ==
    IF only_videos /\ ~is_video(file_info.mimeType) THEN "skip"
    ELSE IF only_docs /\ is_video(file_info.mimeType) THEN "skip"
    ELSE IF file_info.mimeType = Shortcut THEN "unsupported"
    ELSE IF file_info.canDownload
         THEN (IF only_view_only THEN "skip" ELSE "parallel")
    ELSE IF is_video(file_info.mimeType) THEN "video"
    ELSE IF file_info.mimeType = "application/pdf" THEN "pdf"
    ELSE "unsupported"

\* a classifier that looks at canDownload before the shortcut type
RouteCapabilityFirst(file_info, completed_files, only_videos, only_docs, only_view_only) ==
    IF file_key(file_info) \in completed_files THEN "skip"
    ELSE IF only_videos /\ ~is_video(file_info.mimeType) THEN "skip"
    ELSE IF only_docs /\ is_video(file_info.mimeType) THEN "skip"
    ELSE IF file_info.canDownload
         THEN (IF only_view_only THEN "skip" ELSE "parallel")
    ELSE IF file_info.mimeType = Shortcut THEN "unsupported"
    ELSE IF is_video(file_info.mimeType) THEN "video"
    ELSE IF file_info.mimeType = "application/pdf" THEN "pdf"
    ELSE "unsupported"

\* lines 632-667, the body of the loop of classify_files for one task: the
\* bucket the task is appended to, or "skip" when the loop continues
Route(file_info, completed_files, only_videos, only_docs, only_view_only) ==
    IF file_key(file_info) \in completed_files THEN "skip"
    ELSE IF only_videos /\ ~is_video(file_info.mimeType) THEN "skip"
    ELSE IF only_docs /\ is_video(file_info.mimeType) THEN "skip"
    ELSE IF file_info.mimeType = Shortcut THEN "unsupported"
    ELSE IF file_info.canDownload
         THEN (IF only_view_only THEN "skip" ELSE "parallel")
    ELSE IF is_video(file_info.mimeType) THEN "video"
    ELSE IF file_info.mimeType = "application/pdf" THEN "pdf"
    ELSE "unsupported"

\* the tasks of the queue appended to one bucket, in the order of the queue
Bucket(name, download_queue, completed_files, only_videos, only_docs, only_view_only) ==
    SelectSeq(download_queue,
              LAMBDA file_info :
                  Route(file_info, completed_files, only_videos, only_docs, only_view_only) = name)

\* classify_files: (parallel_tasks, video_view_only_tasks, pdf_view_only_tasks, unsupported_tasks)
classify_files(download_queue, completed_files, only_videos, only_docs, only_view_only) ==
    [parallel_tasks |-> Bucket("parallel", download_queue, completed_files,
                               only_videos, only_docs, only_view_only),
     video_view_only_tasks |-> Bucket("video", download_queue, completed_files,
                                      only_videos, only_docs, only_view_only),
     pdf_view_only_tasks |-> Bucket("pdf", download_queue, completed_files,
                                    only_videos, only_docs, only_view_only),
     unsupported_tasks |-> Bucket("unsupported", download_queue, completed_files,
                                  only_videos, only_docs, only_view_only)]

\* validate_file_filters: the flags come back as they went in
validate_file_filters(only_videos, only_docs, only_view_only) ==
    <<only_videos, only_docs, only_view_only>>

\* the folders classified: item i has file id i, any capability, any type
DownloadQueues ==
    UNION {[1..n -> BOOLEAN \X MimeTypes] : n \in 0..MaxKeys}
QueueOf(q) == [i \in 1..Len(q) |-> FileInfo("id" \o ToString(i), q[i][1], q[i][2])]

\* the list of the classifier scenario: a retrievable item, a restricted
\* stream, a restricted document and an alias
ScenarioQueue ==
    << FileInfo("k1", TRUE, "application/pdf"), FileInfo("k2", FALSE, "video/mp4"),
       FileInfo("k3", FALSE, "application/pdf"), FileInfo("k4", FALSE, Shortcut) >>

KeysOf(download_queue) == {file_key(download_queue[i]) : i \in 1..Len(download_queue)}

NoBuckets ==
    [parallel_tasks |-> <<>>, video_view_only_tasks |-> <<>>,
     pdf_view_only_tasks |-> <<>>, unsupported_tasks |-> <<>>]

\* the checkpoint store before any call on it
StoreIdle ==
    /\ fs = <<>> /\ lock = "free" /\ disk = "ok" /\ hist = NoHist
    /\ pc = [t \in Threads |-> "idle"]
    /\ call = [t \in Threads |-> NoCall]
    /\ step = [t \in Threads |-> 0]
    /\ job = [t \in Threads |-> JobOf(MainFolderId, {}, {}, "/d1", KeyOrder)]
    /\ main = NoMain

InitClassify ==
    /\ StoreIdle
    /\ retry = NoRetry /\ sched = NoSched
    /\ \E download_queue \in {QueueOf(q) : q \in DownloadQueues} \cup {ScenarioQueue},
          args \in BOOLEAN \X BOOLEAN \X BOOLEAN :
         \E completed_files \in SUBSET KeysOf(download_queue) :
            cls = [pc |-> "args", download_queue |-> download_queue,
                   completed_files |-> completed_files,
                   args |-> args, only_videos |-> FALSE, only_docs |-> FALSE,
                   only_view_only |-> FALSE, buckets |-> NoBuckets]

\* main.py lines 789-793: the flags of the command line go through validate_file_filters
ValidateFilters ==
    /\ cls.pc = "args"
    /\ LET flags == validate_file_filters(cls.args[1], cls.args[2], cls.args[3])
       IN  cls' = [cls EXCEPT !.pc = "classify", !.only_videos = flags[1],
                              !.only_docs = flags[2], !.only_view_only = flags[3]]
    /\ UNCHANGED <<fs, lock, pc, call, job, step, main, disk, hist, retry, sched>>

\* main.py lines 937-943: the queue is classified
Classify ==
    /\ cls.pc = "classify"
    /\ cls' = [cls EXCEPT !.pc = "done",
                          !.buckets = classify_files(cls.download_queue, cls.completed_files,
                                                     cls.only_videos, cls.only_docs,
                                                     cls.only_view_only)]
    /\ UNCHANGED <<fs, lock, pc, call, job, step, main, disk, hist, retry, sched>>

NextClassify == ValidateFilters \/ Classify

SpecClassify == InitClassify /\ [][NextClassify]_vars

(***************************************************************************)
(* downloader.py: retry_on_failure around download_standard_file           *)
(***************************************************************************)
\* the largest max_attempts the decorators are given (download_standard_file)
MaxAttempts == 5
\* delay=2 (download_standard_file, export_google_doc), delay=5 (download_video)
Delays == {2, 5}

\* what the Drive request of one attempt does: the download completes, the
\* request is refused with reason fileNotDownloadable, it is refused for
\* another reason (403 insufficient permissions), or the connection drops
ApiOutcomes == {"done", "HttpError_fileNotDownloadable", "HttpError_forbidden", "ConnectionError"}

\* download_standard_file, lines 116-161: True on success, False on an
\* HttpError with reason fileNotDownloadable, every other error raised again
download_standard_file(api) ==
    IF api = "done" THEN [kind |-> "return", value |-> TRUE]
    ELSE IF api = "HttpError_fileNotDownloadable" THEN [kind |-> "return", value |-> FALSE]
    ELSE [kind |-> "raise", value |-> api]

\* a schedule that doubles from the second retry on
wait_time_late(delay, attempt, exponential_backoff) ==
    IF exponential_backoff /\ attempt > 0 THEN delay * (2 ^ (attempt - 1)) ELSE delay

\* wait_time = delay * (2 ** attempt) if exponential_backoff else delay
wait_time(delay, attempt, exponential_backoff) ==
    IF exponential_backoff THEN delay * (2 ^ attempt) ELSE delay

\* an except clause that never gives up
NeverLast(attempt, max_attempts) == FALSE

\* the except clause of sync_wrapper: raise on the last attempt of the range
LastAttempt(attempt, max_attempts) == attempt = max_attempts - 1

InitRetry ==
    /\ StoreIdle
    /\ cls = NoCls /\ sched = NoSched
    /\ \E max_attempts \in 1..MaxAttempts, delay \in Delays, exponential_backoff \in BOOLEAN :
          retry = [pc |-> "for", attempt |-> 0, max_attempts |-> max_attempts,
                   delay |-> delay, exponential_backoff |-> exponential_backoff,
                   calls |-> 0, raised |-> <<>>, sleeps |-> <<>>,
                   wait_time |-> 0, result |-> "none"]

RetryStays == UNCHANGED <<fs, lock, pc, call, job, step, main, disk, hist, cls, sched>>

\* lines 85-87: for attempt in range(max_attempts): try: return func(...)
\* (the range is over when attempt reaches max_attempts: the wrapper falls
\* off its end and returns None)
RetryCall ==
    /\ retry.pc = "for"
    /\ IF retry.attempt >= retry.max_attempts
       THEN retry' = [retry EXCEPT !.pc = "returned", !.result = "None"]
       ELSE \E api \in ApiOutcomes :
               LET r == download_standard_file(api)
               IN  retry' =
                     IF r.kind = "return"
                     THEN [retry EXCEPT !.pc = "returned", !.calls = @ + 1,
                                        !.result = ToString(r.value)]
                     ELSE [retry EXCEPT !.pc = "except", !.calls = @ + 1,
                                        !.raised = Append(@, r.value)]
    /\ RetryStays

\* lines 88-93: except Exception: raise on the last attempt, else compute
\* wait_time and log
RetryExcept ==
    /\ retry.pc = "except"
    /\ retry' =
          IF LastAttempt(retry.attempt, retry.max_attempts)
          THEN [retry EXCEPT !.pc = "raised", !.result = retry.raised[Len(retry.raised)]]
          ELSE [retry EXCEPT !.pc = "sleep",
                   !.wait_time = wait_time(retry.delay, retry.attempt, retry.exponential_backoff)]
    /\ RetryStays

\* line 94: time.sleep(wait_time), then the next attempt of the range
RetrySleep ==
    /\ retry.pc = "sleep"
    /\ retry' = [retry EXCEPT !.pc = "for", !.attempt = @ + 1,
                              !.sleeps = Append(@, retry.wait_time)]
    /\ RetryStays

NextRetry == RetryCall \/ RetryExcept \/ RetrySleep

SpecRetry == InitRetry /\ [][NextRetry]_vars

(***************************************************************************)
(* main.py: one run of main() from the classifier to the final report      *)
(***************************************************************************)
\* values of --workers (validate_workers admits 1 to 20)
Workers == {1, 2}
Min(a, b) == IF a < b THEN a ELSE b

\* the items of a run: a downloadable file, a view-only video, a view-only PDF
RunKinds == {<<TRUE, "application/pdf">>, <<FALSE, "video/mp4">>, <<FALSE, "application/pdf">>}
RunQueues == UNION {[1..n -> RunKinds] : n \in 1..MaxKeys}
\* the order the two sets are listed in when they are saved
RunOrder == [i \in 1..(MaxKeys + 11) |-> file_key(FileInfo("id" \o ToString(i), TRUE, ""))]

\* save_checkpoint and clear_checkpoint run from call to return on a disk
\* that works, with no other call in between
save_checkpoint(f, folder_id, completed_files, failed_files, destination_path) ==
    LET checkpoint_data == CheckpointData(folder_id, completed_files, failed_files,
                                          destination_path, RunOrder)
    IN  Put(f, _get_checkpoint_path(folder_id),
            File("dict", [checkpoint_data EXCEPT !.checksum = ChecksumOfSave(checkpoint_data)],
                 "0o600"))
clear_checkpoint(f, folder_id) ==
    IF Exists(f, _get_checkpoint_path(folder_id))
    THEN Remove(f, _get_checkpoint_path(folder_id)) ELSE f

\* the save main() makes of its two sets
MainSaves(f) ==
    save_checkpoint(f, MainFolderId, main.completed_files, main.failed_files,
                    main.current_destination_path)

\* lines 1015-1021 and 1152-1157: a task is submitted when one is pending and
\* a worker slot is available
CanSubmit(pending_tasks, available_workers) == pending_tasks # <<>> /\ available_workers # <<>>

\* futures.pop(future) that leaves the future in the dict
KeepFuture(futures, future) == futures
\* lines 1058-1059 and 1187-1188: task, tid = futures.pop(future)
Pop(futures, future) == futures \ {future}

\* submit_next_task that takes the task that was queued last
submit_newest_task(s) ==
    IF CanSubmit(s.pending_tasks, s.available_workers)
    THEN LET task == s.pending_tasks[Len(s.pending_tasks)] IN
         [s EXCEPT !.available_workers = Tail(@),
                   !.pending_tasks = SubSeq(@, 1, Len(@) - 1),
                   !.submitted = Append(@, file_key(task)),
                   !.futures = @ \cup {[file_key |-> file_key(task),
                                        tid |-> Head(s.available_workers),
                                        state |-> "running"]}]
    ELSE s

\* submit_next_task that leaves the slot it uses in the queue of available slots
submit_on_kept_slot(s) ==
    IF CanSubmit(s.pending_tasks, s.available_workers)
    THEN [s EXCEPT !.pending_tasks = Tail(@),
                   !.submitted = Append(@, file_key(Head(s.pending_tasks))),
                   !.futures = @ \cup {[file_key |-> file_key(Head(s.pending_tasks)),
                                        tid |-> Head(s.available_workers),
                                        state |-> "running"]}]
    ELSE s

\* lines 1013-1036 and 1151-1166: submit_next_task: the slot and the task at
\* the heads of the two queues, submitted to the executor and kept in futures
submit_next_task(s) ==
    IF CanSubmit(s.pending_tasks, s.available_workers)
    THEN [s EXCEPT !.available_workers = Tail(@), !.pending_tasks = Tail(@),
                   !.submitted = Append(@, file_key(Head(s.pending_tasks))),
                   !.futures = @ \cup {[file_key |-> file_key(Head(s.pending_tasks)),
                                        tid |-> Head(s.available_workers),
                                        state |-> "running"]}]
    ELSE s

\* lines 1018-1036: the outcomes of a call of the standard bucket's
\* submit_next_task in whose try block signal_handler raises
\* KeyboardInterrupt: the bare except returns False, before the two queues
\* were read or after the slot and the task were taken from them
submit_interrupted(s) ==
    {s, [s EXCEPT !.available_workers = Tail(@), !.pending_tasks = Tail(@)]}

\* the worker slots of a bucket: range(workers) for the standard bucket,
\* range(video_workers) with video_workers = min(workers, len(tasks)) for videos
Slots(bucket, workers, n) == IF bucket = "video" THEN Min(workers, n) ELSE workers
\* one period for both pool buckets
PeriodOfStandard(bucket) == 10
\* the periodic save: every 10 results (standard), every 5 (videos)
Period(bucket) == IF bucket = "standard" THEN 10 ELSE 5
TasksOf(bucket, buckets) ==
    IF bucket = "standard" THEN buckets.parallel_tasks
    ELSE IF bucket = "video" THEN buckets.video_view_only_tasks
    ELSE buckets.pdf_view_only_tasks
NextBucket(bucket) == IF bucket = "standard" THEN "video" ELSE "pdf"

\* the process has not exited
NoStatus == -1

\* lines 1360-1369: the exit status of the process: main() returned, or
\* KeyboardInterrupt reached the module (sys.exit(0)), or another exception
\* did (sys.exit(1))
exit_status(raised) ==
    IF raised = "none" THEN 0 ELSE IF raised = "KeyboardInterrupt" THEN 0 ELSE 1

\* the scheduler of main() before its first bucket
SchedOf(workers, buckets) ==
    [pc |-> "begin", bucket |-> "standard", workers |-> workers, buckets |-> buckets,
     worker_tasks |-> 0, available_workers |-> <<>>, pending_tasks |-> <<>>,
     futures |-> {}, done |-> {}, results |-> <<>>, submitted |-> <<>>,
     calls |-> 0, idx |-> 0, save_log |-> <<>>,
     cleared |-> FALSE, again |-> FALSE, handler_saves |-> 0, status |-> NoStatus]

\* main() after lines 876-922 (the checkpoint of an earlier run loaded or
\* not, the globals set) and after classify_files
InitRun ==
    /\ lock = "free" /\ disk = "ok" /\ hist = NoHist
    /\ pc = [t \in Threads |-> "idle"]
    /\ call = [t \in Threads |-> NoCall]
    /\ step = [t \in Threads |-> 0]
    /\ job = [t \in Threads |-> JobOf(MainFolderId, {}, {}, "/d1", KeyOrder)]
    /\ cls = NoCls /\ retry = NoRetry
    /\ \E q \in RunQueues, workers \in Workers :
         \E completed_files \in SUBSET KeysOf(QueueOf(q)) :
            \E failed_files \in SUBSET (KeysOf(QueueOf(q)) \ completed_files) :
               LET resume == completed_files \cup failed_files # {} IN
               /\ main = [NoMain EXCEPT !.pc = "schedule", !.checkpoint_mgr = TRUE,
                             !.current_folder_id = MainFolderId,
                             !.current_completed_files = completed_files,
                             !.current_failed_files = failed_files,
                             !.current_destination_path = "/d1",
                             !.resume = resume,
                             !.completed_files = completed_files,
                             !.failed_files = failed_files]
               /\ fs = IF resume
                       THEN save_checkpoint(<<>>, MainFolderId, completed_files,
                                            failed_files, "/d1")
                       ELSE <<>>
               /\ sched = SchedOf(workers, classify_files(QueueOf(q), completed_files,
                                                          FALSE, FALSE, FALSE))

RunStays == UNCHANGED <<lock, pc, call, job, step, disk, hist, cls, retry>>
RunTasks == TasksOf(sched.bucket, sched.buckets)
PoolBucket == sched.bucket \in {"standard", "video"}

\* a save_checkpoint call of main()'s loops, noted with the bucket and the
\* number of tasks of the bucket that were over when it was made
Logged(s, n, kind) == [s EXCEPT !.save_log = Append(@, <<s.bucket, n, kind>>)]

\* lines 967-1011 and 1106-1148: a pool bucket with tasks gets its slots,
\* its executor and its queue of pending tasks; one without tasks is skipped
RunBucketBegin ==
    /\ sched.pc = "begin" /\ PoolBucket
    /\ sched' =
          IF RunTasks = <<>>
          THEN [sched EXCEPT !.bucket = NextBucket(sched.bucket)]
          ELSE LET slots == Slots(sched.bucket, sched.workers, Len(RunTasks))
               IN [sched EXCEPT !.pc = "submit", !.worker_tasks = slots,
                                !.available_workers = [tid \in 1..slots |-> tid],
                                !.pending_tasks = RunTasks,
                                !.futures = {}, !.done = {}, !.results = <<>>,
                                !.submitted = <<>>,
                                !.calls = Min(slots, Len(RunTasks))]
    /\ UNCHANGED <<fs, main>>
    /\ RunStays

\* where the loop of the first submissions goes after a call
AfterCall(s) == [s EXCEPT !.calls = @ - 1, !.pc = IF s.calls = 1 THEN "loop" ELSE "submit"]

\* lines 1039-1040 and 1168-1169: for _ in range(min(workers, len(tasks))):
\* submit_next_task(), one call
RunSubmit ==
    /\ sched.pc = "submit"
    /\ sched' = AfterCall(submit_next_task(sched))
    /\ UNCHANGED <<fs, main>>
    /\ RunStays

\* a worker that records nothing for a transfer that failed
RecordSuccess(m, k, result) ==
    IF result
    THEN [m EXCEPT !.completed_files = @ \cup {k}, !.current_completed_files = @ \cup {k}]
    ELSE m

\* a worker that takes the key of a success out of failed_files
RecordExclusive(m, k, result) ==
    IF result
    THEN [m EXCEPT !.completed_files = @ \cup {k}, !.current_completed_files = @ \cup {k},
                   !.failed_files = @ \ {k}, !.current_failed_files = @ \ {k}]
    ELSE [m EXCEPT !.failed_files = @ \cup {k}, !.current_failed_files = @ \cup {k}]

\* lines 380-385, 443-450 and 1298-1303: completed_files.add(file_key) on
\* success, failed_files.add(file_key) otherwise (the globals name the same sets)
Record(m, k, result) ==
    IF result
    THEN [m EXCEPT !.completed_files = @ \cup {k}, !.current_completed_files = @ \cup {k}]
    ELSE [m EXCEPT !.failed_files = @ \cup {k}, !.current_failed_files = @ \cup {k}]

\* lines 348-396 and 414-460: download_worker / video_worker on a pool
\* thread: True at once for a completed key, else the transfer, whose
\* outcome puts the key in completed_files or in failed_files (a pool thread
\* goes on when main() has returned from the bucket with it still running)
WorkerRun ==
    /\ sched.pc \in {"submit", "loop", "process", "resubmit", "unwind", "returned"}
    /\ \E future \in sched.futures :
          /\ future.state = "running"
          /\ \E result \in BOOLEAN :
                /\ future.file_key \in main.completed_files => result
                /\ LET finished == [future EXCEPT !.state = ToString(result)] IN
                   sched' = [sched EXCEPT !.futures = (@ \ {future}) \cup {finished}]
                /\ main' = IF future.file_key \in main.completed_files THEN main
                           ELSE Record(main, future.file_key, result)
    /\ UNCHANGED fs
    /\ RunStays

\* lines 1044-1054 and 1173-1183: a turn of the while loop: the interrupted
\* check, then concurrent.futures.wait gives the futures that are done (with
\* none done it times out and the loop turns again)
RunWait ==
    /\ sched.pc = "loop" /\ PoolBucket
    /\ Len(sched.results) < Len(RunTasks)
    /\ IF main.interrupted
       THEN sched' = [sched EXCEPT !.pc = "unwind"]
       ELSE LET done == {future \in sched.futures : future.state # "running"} IN
            /\ done # {}
            /\ sched' = [sched EXCEPT !.pc = "process", !.done = done]
    /\ UNCHANGED <<fs, main>>
    /\ RunStays

\* lines 1057-1067 and 1186-1196: for future in done: the pop, the result and
\* the slot put back in available_workers
RunTake ==
    /\ sched.pc = "process"
    /\ \E future \in sched.done :
          sched' = [sched EXCEPT !.pc = "resubmit",
                                 !.done = @ \ {future},
                                 !.futures = Pop(sched.futures, future),
                                 !.results = Append(@, future.state),
                                 !.available_workers = Append(@, future.tid)]
    /\ UNCHANGED <<fs, main>>
    /\ RunStays

\* lines 1072-1077 and 1201-1206: after the submit_next_task call of a done
\* future: the periodic save, then the next done future or the while loop
Resubmitted(s) ==
    LET next == [s EXCEPT !.pc = IF s.done = {} THEN "loop" ELSE "process"]
    IN  IF Len(s.results) % Period(s.bucket) = 0 THEN Logged(next, Len(s.results), "periodic")
        ELSE next

\* lines 1069-1077 and 1198-1206: submit_next_task() for the slot that was
\* put back, and the periodic save
RunResubmit ==
    /\ sched.pc = "resubmit"
    /\ sched' = Resubmitted(submit_next_task(sched))
    /\ fs' = IF Len(sched.results) % Period(sched.bucket) = 0 THEN MainSaves(fs) ELSE fs
    /\ UNCHANGED main
    /\ RunStays

\* lines 1096-1097 and 1225-1226: the loop is over, the executor is shut
\* down, the final save of the bucket
RunFinalSave ==
    /\ sched.pc = "loop" /\ PoolBucket
    /\ Len(sched.results) >= Len(RunTasks)
    /\ sched' = [Logged(sched, Len(sched.results), "final") EXCEPT
                    !.pc = "begin", !.bucket = NextBucket(sched.bucket)]
    /\ fs' = MainSaves(fs)
    /\ UNCHANGED main
    /\ RunStays

\* an except clause that goes on to the next bucket where lines 1100 and
\* 1229 return
RunUnwindGoesOn ==
    /\ sched.pc = "unwind"
    /\ \A future \in sched.futures : future.state # "running"
    /\ sched' = [sched EXCEPT !.pc = "begin", !.bucket = NextBucket(sched.bucket)]
    /\ UNCHANGED <<fs, main>>
    /\ RunStays

\* lines 1086-1100 and 1215-1229: except KeyboardInterrupt cancels the
\* futures (the running ones go on), the executor's shutdown waits for
\* them, and main() returns
RunUnwind ==
    /\ sched.pc = "unwind"
    /\ \A future \in sched.futures : future.state # "running"
    /\ sched' = [sched EXCEPT !.pc = "returned"]
    /\ UNCHANGED <<fs, main>>
    /\ RunStays

\* lines 1235-1262: the PDF bucket, when it has tasks
RunPdfBegin ==
    /\ sched.pc = "begin" /\ sched.bucket = "pdf"
    /\ sched' = IF RunTasks = <<>> THEN [sched EXCEPT !.pc = "report"]
                ELSE [sched EXCEPT !.pc = "loop", !.idx = 1, !.submitted = <<>>]
    /\ UNCHANGED <<fs, main>>
    /\ RunStays

\* lines 1264-1306: one task of the PDF loop: the interrupted check, the
\* completed check, the transfer and the save; lines 1308-1316: the except
\* clause prints and the run goes on to the report
RunPdfTask ==
    /\ sched.pc = "loop" /\ sched.bucket = "pdf"
    /\ IF sched.idx > Len(RunTasks) \/ main.interrupted
       THEN sched' = [sched EXCEPT !.pc = "report"] /\ UNCHANGED <<fs, main>>
       ELSE LET k == file_key(RunTasks[sched.idx]) IN
            IF k \in main.completed_files
            THEN /\ sched' = [sched EXCEPT !.idx = @ + 1]
                 /\ UNCHANGED <<fs, main>>
            ELSE /\ \E result \in BOOLEAN : main' = Record(main, k, result)
                 /\ sched' = Logged([sched EXCEPT !.idx = @ + 1,
                                                  !.submitted = Append(@, k)],
                                    sched.idx, "task")
                 /\ fs' = save_checkpoint(fs, MainFolderId, main'.completed_files,
                                          main'.failed_files, main.current_destination_path)
    /\ RunStays

\* lines 1319-1323: total_tasks, all_complete, clear_checkpoint
RunReport ==
    /\ sched.pc = "report"
    /\ LET total_tasks == Len(sched.buckets.parallel_tasks)
                          + Len(sched.buckets.video_view_only_tasks)
                          + Len(sched.buckets.pdf_view_only_tasks)
           all_complete == /\ Cardinality(main.completed_files) >= total_tasks
                           /\ Cardinality(main.failed_files) = 0
       IN  /\ sched' = [sched EXCEPT !.pc = "done", !.cleared = all_complete]
           /\ fs' = IF all_complete THEN clear_checkpoint(fs, MainFolderId) ELSE fs
    /\ UNCHANGED main
    /\ RunStays

\* where the KeyboardInterrupt that signal_handler raises takes main():
\* a pool bucket catches it to return after its workers (the clause of line
\* 1086 or 1215 inside the loop, the one of line 1099 or 1228 around the
\* first submissions); the bare except of the standard bucket's
\* submit_next_task swallows it when a task is pending, and the loop goes on
\* from that call; the PDF bucket catches it to go on to the report; anywhere
\* else it ends main()
Landings(s) ==
    IF s.pc \in {"begin", "report"} THEN {[s EXCEPT !.pc = "exit"]}
    ELSE IF s.bucket = "pdf" THEN {[s EXCEPT !.pc = "report"]}
    ELSE {[s EXCEPT !.pc = "unwind"]}
         \cup IF s.bucket = "standard" /\ s.pending_tasks # <<>> /\ s.pc = "submit"
              THEN {AfterCall(after) : after \in submit_interrupted(s)}
              ELSE IF s.bucket = "standard" /\ s.pending_tasks # <<>> /\ s.pc = "resubmit"
              THEN {Resubmitted(after) : after \in submit_interrupted(s)}
              ELSE {}

\* lines 173-211: the first SIGINT of the run: signal_handler sets
\* interrupted, saves the globals' sets and raises KeyboardInterrupt in main()
RunSignal ==
    /\ sched.pc \in {"begin", "submit", "loop", "process", "resubmit", "report"}
    /\ ~main.interrupted
    /\ main' = [main EXCEPT !.interrupted = TRUE]
    /\ fs' = save_checkpoint(fs, main.current_folder_id, main.current_completed_files,
                             main.current_failed_files, main.current_destination_path)
    /\ sched' \in Landings([sched EXCEPT !.handler_saves = @ + 1])
    /\ RunStays

\* lines 173-211: a second SIGINT, when interrupted is already set: the
\* handler runs as it did the first time; its KeyboardInterrupt ends the
\* wait of the except clause or of the executor's shutdown (main() returns,
\* or goes on waiting in the shutdown), and lands as the first one anywhere
\* else
RunSignalAgain ==
    /\ sched.pc \in {"submit", "loop", "process", "resubmit", "unwind", "report"}
    /\ main.interrupted /\ ~sched.again
    /\ main' = main
    /\ fs' = save_checkpoint(fs, main.current_folder_id, main.current_completed_files,
                             main.current_failed_files, main.current_destination_path)
    /\ LET s == [sched EXCEPT !.handler_saves = @ + 1, !.again = TRUE] IN
       IF sched.pc = "unwind"
       THEN sched' \in {s, [s EXCEPT !.pc = "returned"]}
       ELSE sched' \in Landings(s)
    /\ RunStays

\* lines 1360-1369: the process exits, once the threads of the pool are over
ProcessExit ==
    /\ sched.pc \in {"done", "returned", "exit"}
    /\ \A future \in sched.futures : future.state # "running"
    /\ sched' = [sched EXCEPT !.pc = "exited",
                   !.status = exit_status(IF sched.pc = "exit" THEN "KeyboardInterrupt"
                                          ELSE "none")]
    /\ UNCHANGED <<fs, main>>
    /\ RunStays

NextRun ==
    \/ RunBucketBegin
    \/ RunSubmit
    \/ WorkerRun
    \/ RunWait
    \/ RunTake
    \/ RunResubmit
    \/ RunFinalSave
    \/ RunUnwind
    \/ RunPdfBegin
    \/ RunPdfTask
    \/ RunReport
    \/ RunSignal
    \/ RunSignalAgain
    \/ ProcessExit

SpecRun == InitRun /\ [][NextRun]_vars

\* the main thread goes on whenever it can; a transfer may never finish and
\* SIGINT may never come
MainThreadSteps ==
    \/ RunBucketBegin
    \/ RunSubmit
    \/ RunWait
    \/ RunTake
    \/ RunResubmit
    \/ RunFinalSave
    \/ RunUnwind
    \/ RunPdfBegin
    \/ RunPdfTask
    \/ RunReport
    \/ ProcessExit

SpecRunLive == SpecRun /\ WF_vars(MainThreadSteps)

\* first runs on a folder of items of one kind, as many as the period of
\* their bucket's save or one more: standard items on one worker, videos on
\* one or two (lines 1073 and 1202 read len(results), whatever the workers)
StandardLengths == {10, 11}
VideoLengths == {5, 6}
PeriodicRuns ==
    {<<[i \in 1..n |-> <<TRUE, "application/pdf">>], 1>> : n \in StandardLengths}
    \cup {<<[i \in 1..n |-> <<FALSE, "video/mp4">>], workers>> :
             n \in VideoLengths, workers \in Workers}

InitPeriodic ==
    /\ fs = <<>> /\ lock = "free" /\ disk = "ok" /\ hist = NoHist
    /\ pc = [t \in Threads |-> "idle"]
    /\ call = [t \in Threads |-> NoCall]
    /\ step = [t \in Threads |-> 0]
    /\ job = [t \in Threads |-> JobOf(MainFolderId, {}, {}, "/d1", KeyOrder)]
    /\ cls = NoCls /\ retry = NoRetry
    /\ main = [NoMain EXCEPT !.pc = "schedule", !.checkpoint_mgr = TRUE,
                  !.current_folder_id = MainFolderId,
                  !.current_completed_files = {}, !.current_failed_files = {},
                  !.current_destination_path = "/d1",
                  !.completed_files = {}, !.failed_files = {}]
    /\ \E run \in PeriodicRuns :
          sched = SchedOf(run[2], classify_files(QueueOf(run[1]), {}, FALSE, FALSE, FALSE))

\* the run when no SIGINT comes
NextPeriodic ==
    \/ RunBucketBegin
    \/ RunSubmit
    \/ WorkerRun
    \/ RunWait
    \/ RunTake
    \/ RunResubmit
    \/ RunFinalSave
    \/ RunPdfBegin
    \/ RunReport
    \/ ProcessExit

SpecPeriodic == InitPeriodic /\ [][NextPeriodic]_vars

(***************************************************************************)
(* checkpoint.py: save_checkpoint while the workers of main.py add keys    *)
(***************************************************************************)
\* main() in its scheduling phase: the sets it passes to save_checkpoint
\* are the sets its worker threads add to, so what save_checkpoint reads
\* through its arguments is what the sets hold when it reads
InitRace ==
    /\ fs = <<>> /\ lock = "free" /\ disk = "ok" /\ hist = NoHist
    /\ pc = [t \in Threads |-> "idle"]
    /\ call = [t \in Threads |-> NoCall]
    /\ step = [t \in Threads |-> 0]
    /\ job = [t \in Threads |-> JobOf(MainFolderId, {}, {}, "/d1", KeyOrder)]
    /\ InitAux
    /\ \E completed_files \in SUBSET Keys :
         \E failed_files \in SUBSET (Keys \ completed_files) :
            main = [NoMain EXCEPT !.pc = "schedule", !.checkpoint_mgr = TRUE,
                       !.current_folder_id = MainFolderId,
                       !.current_completed_files = completed_files,
                       !.current_failed_files = failed_files,
                       !.current_destination_path = "/d1",
                       !.completed_files = completed_files,
                       !.failed_files = failed_files]

\* lines 67-76: the paths, then the dict up to 'failed_files': the two
\* lists are what the sets hold now
RaceBuildLists(t) ==
    /\ pc[t] = "save_build"
    /\ LET c == call[t] IN
       Goto(t, "save_build_totals",
            [c EXCEPT !.checkpoint_path = _get_checkpoint_path(c.folder_id),
                      !.checkpoint_data =
                         Dict(SavedFields \ {"total_completed", "total_failed"}, "2.0",
                              c.folder_id, c.destination_path, now_isoformat,
                              list(main.completed_files, job[t].order),
                              list(main.failed_files, job[t].order), 0, 0, NoneChecksum)])
    /\ UNCHANGED <<fs, job, step, main, aux, disk>>

\* lines 77-80: the rest of the dict: the two totals are the sizes the sets
\* have now
RaceBuildTotals(t) ==
    /\ pc[t] = "save_build_totals"
    /\ LET c == call[t] IN
       Goto(t, "save_open",
            [c EXCEPT !.checkpoint_data =
                         [c.checkpoint_data EXCEPT
                             !.present = SavedFields,
                             !.total_completed = Cardinality(main.completed_files),
                             !.total_failed = Cardinality(main.failed_files)]])
    /\ UNCHANGED <<fs, job, step, main, aux, disk>>

NextRace ==
    \/ MainPeriodicSave
    \/ \E k \in Keys : WorkerAdds(k)
    \/ SaveEnter(MainThread)
    \/ RaceBuildLists(MainThread)
    \/ RaceBuildTotals(MainThread)
    \/ SaveOpen(MainThread)
    \/ SaveDump(MainThread)
    \/ SaveReplace(MainThread)
    \/ SaveChmod(MainThread)
    \/ SaveExcept(MainThread)
    \/ DiskFails

SpecRace == InitRace /\ [][NextRace]_vars

(***************************************************************************)
(* validators.py: validate_workers on the --workers argument               *)
(***************************************************************************)
\* line 178: the defaults of min_workers and max_workers
min_workers_default == 1
max_workers_default == 20

\* the integers that --workers (type=int) is given, around the two ends
WorkerArgs == (min_workers_default - 3)..(max_workers_default + 3)
\* the ranges validate_workers is called with: the defaults of main(), and
\* narrower ones
WorkerRanges ==
    {<<lo, hi>> : lo \in {min_workers_default, min_workers_default + 1},
                  hi \in {max_workers_default - 1, max_workers_default}}

\* validate_workers that returns its argument as it is
validate_workers_unclamped(workers, min_workers, max_workers) == workers

\* lines 193-212: an int below min_workers gives min_workers, one above
\* max_workers gives max_workers, any other is returned
validate_workers(workers, min_workers, max_workers) ==
    IF workers < min_workers THEN min_workers
    ELSE IF workers > max_workers THEN max_workers
    ELSE workers

InitWorkers ==
    /\ StoreIdle
    /\ cls = NoCls /\ retry = NoRetry
    /\ \E w \in WorkerArgs, range \in WorkerRanges :
          sched = [pc |-> "args", args_workers |-> w, min_workers |-> range[1],
                   max_workers |-> range[2], workers |-> 0]

\* main.py lines 782-783: workers = validate_workers(args.workers)
ValidateWorkers ==
    /\ sched.pc = "args"
    /\ sched' = [sched EXCEPT !.pc = "validated",
                   !.workers = validate_workers(sched.args_workers, sched.min_workers,
                                                sched.max_workers)]
    /\ UNCHANGED <<fs, lock, pc, call, job, step, main, disk, hist, cls, retry>>

NextWorkers == ValidateWorkers

SpecWorkers == InitWorkers /\ [][NextWorkers]_vars

(***************************************************************************)
(* main.py: the job state main() starts from                               *)
(***************************************************************************)
\* load_checkpoint from call to return on a disk that works: the dict of
\* the file, or None (NoDict) for no file and for a file it does not accept
load_checkpoint(f, folder_id) ==
    LET path == _get_checkpoint_path(folder_id) IN
    IF Exists(f, path) /\ LoadOutcome(f[path]) = "dict" THEN f[path].data ELSE NoDict

\* the copy load_checkpoint leaves of a file it takes as corrupt
load_backup(f, folder_id) ==
    LET path == _get_checkpoint_path(folder_id) IN
    IF Exists(f, path) /\ LoadOutcome(f[path]) = "backup"
    THEN Put(f, BackupPath(path, now_strftime), f[path]) ELSE f

\* what the checkpoint directory holds for the job when main() starts:
\* nothing, a checkpoint an earlier run saved, or a file from outside
StoredKeys == {RunOrder[i] : i \in 1..MaxKeys}
StoredFiles ==
    {<<>>}
    \cup {save_checkpoint(<<>>, MainFolderId, completed_files, failed_files, "/d1") :
             completed_files \in SUBSET StoredKeys, failed_files \in SUBSET StoredKeys}
    \cup {Put(<<>>, _get_checkpoint_path(MainFolderId), file) :
             file \in OutsideFiles(MainFolderId)}

\* main() at line 871, with its arguments and the answer the user will give
InitStart ==
    /\ lock = "free" /\ disk = "ok" /\ hist = NoHist
    /\ pc = [t \in Threads |-> "idle"]
    /\ call = [t \in Threads |-> NoCall]
    /\ step = [t \in Threads |-> 0]
    /\ job = [t \in Threads |-> JobOf(MainFolderId, {}, {}, "/d1", KeyOrder)]
    /\ cls = NoCls /\ retry = NoRetry
    /\ main = [NoMain EXCEPT !.pc = "clear", !.checkpoint_mgr = TRUE,
                             !.current_folder_id = MainFolderId]
    /\ fs \in StoredFiles
    /\ \E resume \in BOOLEAN, clear \in BOOLEAN, answer \in {"s", "n"} :
          sched = [pc |-> "clear", resume |-> resume, clear_checkpoint |-> clear,
                   answer |-> answer, checkpoint |-> NoDict,
                   stored |-> FileAt(fs, _get_checkpoint_path(MainFolderId)),
                   removed |-> "no"]

StartStays == UNCHANGED <<lock, pc, call, job, step, disk, hist, cls, retry>>

\* lines 872-874: if args.clear_checkpoint: clear_checkpoint(folder_id),
\* whose result is not read: the file is removed, or os.remove raised and
\* clear_checkpoint returned False (checkpoint.py lines 191-197)
StartClear ==
    /\ sched.pc = "clear"
    /\ IF sched.clear_checkpoint /\ Exists(fs, _get_checkpoint_path(MainFolderId))
       THEN \/ /\ fs' = clear_checkpoint(fs, MainFolderId)
               /\ sched' = [sched EXCEPT !.pc = "load", !.removed = "True"]
            \/ /\ fs' = fs
               /\ sched' = [sched EXCEPT !.pc = "load", !.removed = "False"]
       ELSE fs' = fs /\ sched' = [sched EXCEPT !.pc = "load"]
    /\ UNCHANGED main
    /\ StartStays

\* lines 876-881: the checkpoint is loaded with --resume, the two sets are
\* those of the checkpoint or empty, and the globals name them
StartLoad ==
    /\ sched.pc = "load"
    /\ LET checkpoint == IF sched.resume THEN load_checkpoint(fs, MainFolderId) ELSE NoDict
           completed_files == IF checkpoint # NoDict THEN SetOf(checkpoint.completed_files) ELSE {}
           failed_files == IF checkpoint # NoDict THEN SetOf(checkpoint.failed_files) ELSE {}
       IN  /\ sched' = [sched EXCEPT !.pc = "prompt", !.checkpoint = checkpoint]
           /\ main' = [main EXCEPT !.pc = "prompt", !.resume = sched.resume,
                                   !.completed_files = completed_files,
                                   !.failed_files = failed_files,
                                   !.current_completed_files = completed_files,
                                   !.current_failed_files = failed_files]
           /\ fs' = IF sched.resume THEN load_backup(fs, MainFolderId) ELSE fs
    /\ StartStays

\* lines 883-900: with a checkpoint the user is asked; any answer but 's'
\* clears both sets
StartPrompt ==
    /\ sched.pc = "prompt"
    /\ sched' = [sched EXCEPT !.pc = "started"]
    /\ main' = IF sched.checkpoint # NoDict /\ sched.answer # "s"
               THEN [main EXCEPT !.pc = "destination",
                                 !.completed_files = {}, !.failed_files = {},
                                 !.current_completed_files = {}, !.current_failed_files = {}]
               ELSE [main EXCEPT !.pc = "destination"]
    /\ UNCHANGED fs
    /\ StartStays

NextStart == StartClear \/ StartLoad \/ StartPrompt

SpecStart == InitStart /\ [][NextStart]_vars

(***************************************************************************)
(* Properties of the checkpoint store                                      *)
(***************************************************************************)
\* the call of thread t has returned
Returned(t, op) == pc[t] = "idle" /\ call[t].op = op

\* the digest of a dict's content matches the checksum it stores
ChecksumMatches(data) ==
    /\ "checksum" \in data.present
    /\ data.checksum = sha256_of_dumps(Del(data, "checksum"))

\* C1: round trip.  A load that follows a successful save of the same job,
\* with nothing in between, and that meets no I/O error (which the store
\* turns into "absent") returns a record with the folder_id and the
\* destination_path that were saved and with completed_files and
\* failed_files equal, as sets, to the sets that were saved.
C1_RoundTrip ==
    LET c == call[Caller] IN
    ( /\ Returned(Caller, "load")
      /\ c.prev.op = "save" /\ c.prev.val = "True" /\ c.prev.folder_id = c.folder_id
      /\ ~c.faulted )
    => /\ c.val = "dict"
       /\ c.checkpoint_data.folder_id = job[Caller].folder_id
       /\ c.checkpoint_data.destination_path = job[Caller].destination_path
       /\ SetOf(c.checkpoint_data.completed_files) = job[Caller].completed_files
       /\ SetOf(c.checkpoint_data.failed_files) = job[Caller].failed_files

\* a load right after a successful save returned the record of a job with
\* two completed keys and a failed key
C1_Witness ==
    LET c == call[Caller] IN
    /\ Returned(Caller, "load") /\ c.val = "dict"
    /\ c.prev.op = "save" /\ c.prev.val = "True"
    /\ Cardinality(SetOf(c.checkpoint_data.completed_files)) = 2
    /\ SetOf(c.checkpoint_data.failed_files) # {}
    /\ c.folder_id = IdUnsafe

\* C2: the checksum is verified on every read.  Whenever load returns a
\* record, the checksum stored in the file it read equals the digest
\* recomputed over the other fields of that file, whatever the stored value.
C2_ChecksumVerified ==
    \A t \in Threads :
        (Returned(t, "load") /\ call[t].val = "dict") => ChecksumMatches(call[t].read.data)

\* the file load read is invalid JSON (text that does not parse, bytes that
\* are no UTF-8), lacks a required field (an object without it, a JSON value
\* that is no object), or fails the store's checksum check
Corrupt(file) ==
    \/ file.kind \in {"garbage", "partial", "undecodable", "scalar"}
    \/ file.kind = "dict" /\ ~(required_fields \subseteq file.data.present)
    \/ file.kind = "dict" /\ ~_validate_checkpoint_integrity(file.data)

\* C3: load never raises; it returns absent when there is no file; and when
\* the file is invalid JSON, lacks a required field or fails the checksum
\* check (and no I/O error hits the load) a backup copy of the file exists
\* under the .corrupted_ suffix when load returns absent.
C3_CorruptIsBackedUp ==
    \A t \in Threads :
        Returned(t, "load") =>
            /\ call[t].val \in {"None", "dict"}
            /\ call[t].read = NoFile => call[t].val = "None"
            /\ (Corrupt(call[t].read) /\ ~call[t].faulted) =>
                  /\ call[t].val = "None"
                  /\ FileAt(fs, BackupPath(_get_checkpoint_path(call[t].folder_id),
                                           now_strftime)) = call[t].read

\* C4: version compatibility.  A load (that no I/O error hits) of a file with
\* version '1.0', exactly the required fields and a matching checksum returns
\* the record, with version '1.0'.
C4_Version1Accepted ==
    \A t \in Threads :
        ( /\ Returned(t, "load")
          /\ call[t].read.kind = "dict"
          /\ call[t].read.data.version = "1.0"
          /\ call[t].read.data.present = required_fields
          /\ ChecksumMatches(call[t].read.data)
          /\ ~call[t].faulted )
        => /\ call[t].val = "dict"
           /\ call[t].checkpoint_data.version = "1.0"

\* the paths of the checkpoint files of the job ids
CheckpointPaths == {_get_checkpoint_path(folder_id) : folder_id \in FolderIds}

\* a complete record produced by a single save: every key save writes, with
\* the checksum of the rest
CompleteRecord(file) ==
    /\ file.kind = "dict"
    /\ file.data.present = SavedFields
    /\ ChecksumMatches(file.data)

\* the target is absent or complete in every state, a save that returned
\* True replaced once, a save that returned False replaced at most once
TargetNeverPartial ==
    /\ \A path \in CheckpointPaths : Exists(fs, path) => CompleteRecord(fs[path])
    /\ \A t \in Threads :
          /\ call[t].op = "save" => call[t].replaces <= 1
          /\ (Returned(t, "save") /\ call[t].val = "True") => call[t].replaces = 1

\* C5: atomic save.  In every state the checkpoint file is absent or holds one
\* complete record of a single save, the record is installed by exactly one
\* replace, and no temp file is left when a save returns False.
C5_AtomicSave ==
    /\ TargetNeverPartial
    /\ \A t \in Threads :
          (Returned(t, "save") /\ call[t].val = "False") => ~call[t].temp_left

\* C5 as the store keeps it: the same, but a temp file can be left when a
\* save returns False, namely when removing it raised as well.
C5_AtomicSaveBestEffortRemove ==
    /\ TargetNeverPartial
    /\ \A t \in Threads :
          (Returned(t, "save") /\ call[t].val = "False" /\ call[t].temp_left)
              => call[t].remove_raised

\* a save failed after it had written its temp file, the temp file is gone
\* and the checkpoint file still holds the complete record of another save
C5_Witness ==
    \E t \in Threads :
        /\ Returned(t, "save") /\ call[t].val = "False" /\ call[t].faulted
        /\ ~call[t].temp_left
        /\ Exists(fs, call[t].checkpoint_path)
        /\ CompleteRecord(fs[call[t].checkpoint_path])
        /\ fs[call[t].checkpoint_path].data.destination_path # call[t].destination_path

\* C6: save_checkpoint never raises, whatever main() or the signal handler
\* pass and whenever they call it: every save ends with True or False.
C6_SaveNeverRaises ==
    \A t \in Threads : call[t].op = "save" => call[t].val # "raised"

\* C7: clear is idempotent.  A clear that meets no I/O error returns True,
\* whether it removed the file or found none, also when another clear of the
\* same job ran before or runs concurrently; when it returns True the file is
\* gone and a load of the job right after it returns absent.
C7_ClearIdempotent ==
    \A t \in Threads :
        /\ (Returned(t, "clear") /\ ~call[t].faulted) => call[t].val = "True"
        /\ (Returned(t, "clear") /\ call[t].val = "True") => call[t].gone
        /\ ( /\ Returned(t, "load")
             /\ call[t].prev.op = "clear" /\ call[t].prev.val = "True"
             /\ call[t].prev.folder_id = call[t].folder_id )
           => call[t].val = "None"

\* two threads cleared the same job one right after the other, both got True
C7_Witness ==
    \E s, t \in Threads :
        /\ s # t
        /\ Returned(s, "clear") /\ Returned(t, "clear")
        /\ call[s].folder_id = call[t].folder_id
        /\ call[s].val = "True" /\ call[t].val = "True"
        /\ call[t].prev = [op |-> "clear", folder_id |-> call[s].folder_id,
                           val |-> "True", by |-> s]

\* the threads inside a `with self._lock` block
Inside == {t \in Threads : pc[t] \notin {"idle", "save_enter", "load_enter", "clear_enter"}}

\* the record a save of thread t's job state writes
SavedRecord(t) ==
    LET data == CheckpointData(job[t].folder_id, job[t].completed_files,
                               job[t].failed_files, job[t].destination_path, job[t].order)
    IN  [data EXCEPT !.checksum = ChecksumOfSave(data)]

\* C8: save, load and clear never interleave: at most one thread is inside
\* one of them.  When the threads have saved different states of the same job
\* concurrently (and no I/O error hit a save), every save returned True and
\* the file holds the complete record of one of these saves, with a checksum
\* that matches.
C8_Serialized ==
    /\ Cardinality(Inside) <= 1
    /\ \A t \in Inside : lock = t
    /\ ( /\ \A t \in Threads : Returned(t, "save") /\ ~call[t].faulted
         /\ \A s, t \in Threads : call[s].folder_id = call[t].folder_id )
       => /\ \A t \in Threads : call[t].val = "True"
          /\ \E t \in Threads :
                fs[_get_checkpoint_path(job[t].folder_id)].data = SavedRecord(t)
          /\ \A t \in Threads : CompleteRecord(fs[_get_checkpoint_path(job[t].folder_id)])

\* both threads have saved their different states of one job, and the file
\* holds the record of the one that entered second
C8_Witness ==
    /\ \A t \in Threads : Returned(t, "save") /\ call[t].val = "True"
    /\ \A s, t \in Threads : call[s].folder_id = call[t].folder_id
    /\ \E s, t \in Threads :
          /\ SavedRecord(s) # SavedRecord(t)
          /\ call[t].prev.op = "save" /\ call[t].prev.by = s
          /\ fs[call[t].checkpoint_path].data = SavedRecord(t)

\* C9: job isolation.  Threads that run save, load, clear each on its own job
\* id through one store (with a disk that does not fail) all see their save
\* succeed, their load return their own record and their clear succeed.
C9_JobIsolation ==
    ( /\ \A s, t \in Threads : s # t => job[s].folder_id # job[t].folder_id
      /\ disk = "ok" )
    => \A t \in Threads :
          /\ Returned(t, "save") => call[t].val = "True"
          /\ Returned(t, "load") => /\ call[t].val = "dict"
                                    /\ call[t].checkpoint_data = SavedRecord(t)
          /\ Returned(t, "clear") => call[t].val = "True"

\* the characters of a file name made of the prefix, hex digits and .json
HexDigits == {"0", "1", "2", "3", "4", "5", "6", "7", "8", "9", "a", "b", "c", "d", "e", "f"}
SafeFileName(name) ==
    /\ Len(name) > 2
    /\ name[1] = "checkpoint_"
    /\ name[Len(name)] = ".json"
    /\ \A i \in 2..(Len(name) - 1) : name[i] \in HexDigits

\* C10: identity mapping.  The path a call uses is the path of its job id,
\* calls for different job ids use different paths, and the file name is the
\* prefix, hex digits and .json.
C10_IdentityMapping ==
    \A s, t \in Threads :
        (call[s].checkpoint_path # <<>> /\ call[t].checkpoint_path # <<>>) =>
            /\ call[t].checkpoint_path = _get_checkpoint_path(call[t].folder_id)
            /\ SafeFileName(Tail(call[t].checkpoint_path))
            /\ call[s].folder_id # call[t].folder_id
                  => call[s].checkpoint_path # call[t].checkpoint_path


(***************************************************************************)
(* Properties of the classifier                                            *)
(***************************************************************************)
BucketNames == {"parallel_tasks", "video_view_only_tasks", "pdf_view_only_tasks", "unsupported_tasks"}
Classified == cls.pc = "done"
Items == {cls.download_queue[i] : i \in 1..Len(cls.download_queue)}
InBucket(name, file_info) ==
    \E j \in 1..Len(cls.buckets[name]) : cls.buckets[name][j] = file_info
\* the item is in the bucket of that name and in no other
RoutedTo(name, file_info) ==
    \A b \in BucketNames : InBucket(b, file_info) <=> b = name
Dropped(file_info) == \A b \in BucketNames : ~InBucket(b, file_info)

\* C11: after classify_files no item whose key is in completed_files is in
\* any of the four buckets, and the items whose key is not in
\* completed_files are in the buckets they are in when nothing is completed
C11_IdempotentResume ==
    Classified =>
        /\ \A file_info \in Items :
              file_key(file_info) \in cls.completed_files => Dropped(file_info)
        /\ LET fresh == classify_files(cls.download_queue, {}, cls.only_videos,
                                       cls.only_docs, cls.only_view_only)
           IN  \A file_info \in Items, b \in BucketNames :
                  file_key(file_info) \notin cls.completed_files =>
                     (InBucket(b, file_info) <=>
                        \E j \in 1..Len(fresh[b]) : fresh[b][j] = file_info)

\* a resumed classification: one completed item dropped, another item routed
C11_Witness ==
    /\ Classified
    /\ \E done \in Items, todo \in Items :
          /\ file_key(done) \in cls.completed_files /\ Dropped(done)
          /\ file_key(todo) \notin cls.completed_files /\ ~Dropped(todo)

C13_AliasBeforeFilters ==
    Classified =>
        \A file_info \in Items :
           file_info.mimeType = Shortcut /\ file_key(file_info) \notin cls.completed_files
              => RoutedTo("unsupported_tasks", file_info)

\* C14: with only_videos and only_docs both set, the buckets are those of a
\* classification with only_docs alone
C14_OnlyDocsPrecedence ==
    Classified /\ cls.args[1] /\ cls.args[2] =>
        /\ <<cls.only_videos, cls.only_docs, cls.only_view_only>> = cls.args
        /\ cls.buckets = classify_files(cls.download_queue, cls.completed_files,
                                        FALSE, TRUE, cls.only_view_only)


(***************************************************************************)
(* Properties of the retry executor                                        *)
(***************************************************************************)
RetryOver == retry.pc \in {"returned", "raised"}

\* C15: with max_attempts >= 1 the wrapped operation is called at most
\* max_attempts times and, once the wrapper is over, at least once; the
\* wrapper returns the value of the first attempt that returns, and raises,
\* with the exception of the last attempt, exactly when max_attempts
\* attempts have raised
C15_BoundedRetry ==
    retry.pc # "none" =>
        /\ retry.calls <= retry.max_attempts
        /\ Len(retry.raised) <= retry.calls
        /\ RetryOver => retry.calls >= 1
        /\ retry.pc = "returned" =>
              /\ retry.result \in {"TRUE", "FALSE"}
              /\ Len(retry.raised) = retry.calls - 1
        /\ retry.pc = "raised" =>
              /\ retry.calls = retry.max_attempts
              /\ Len(retry.raised) = retry.max_attempts
              /\ retry.result = retry.raised[retry.max_attempts]

\* every attempt of a budget of more than one raised: the last exception
\* reaches the caller
C15_Witness ==
    /\ retry.pc = "raised" /\ retry.max_attempts = 3 /\ retry.calls = 3
    /\ retry.result = "ConnectionError"

\* C16: after an attempt that raised a permanent failure (authorization
\* denial, or a not-retrievable signal) the wrapper neither sleeps nor calls
\* the operation again
Permanent(e) == e \in {"HttpError_forbidden", "HttpError_fileNotDownloadable"}
C16_PermanentFailsFast ==
    retry.pc # "none" =>
        \A k \in 1..Len(retry.raised) :
           Permanent(retry.raised[k]) =>
              /\ retry.calls = k
              /\ Len(retry.sleeps) < k
              /\ retry.pc \in {"except", "raised"}

\* C17: the k-th sleep, made after failed attempt k and before attempt
\* k+1, lasts delay * 2^(k-1) with exponential_backoff and delay without
\* it; there is no sleep after the last failed attempt, so a wrapper that
\* is over after n attempts has slept n-1 times
C17_BackoffSchedule ==
    retry.pc # "none" =>
        /\ \A k \in 1..Len(retry.sleeps) :
              retry.sleeps[k] = IF retry.exponential_backoff
                                THEN retry.delay * (2 ^ (k - 1)) ELSE retry.delay
        /\ retry.pc = "for" => Len(retry.sleeps) = retry.calls
        /\ retry.pc \in {"except", "sleep"} => Len(retry.sleeps) = retry.calls - 1
        /\ RetryOver => Len(retry.sleeps) = retry.calls - 1

\* four failed attempts of five, slept 2, 4, 8 and 16 seconds
C17_Witness ==
    /\ RetryOver /\ retry.calls = 5 /\ retry.exponential_backoff
    /\ retry.sleeps = <<2, 4, 8, 16>>


(***************************************************************************)
(* Properties of a run                                                     *)
(***************************************************************************)
Running == {future \in sched.futures : future.state = "running"}
RunOver == sched.pc \in {"done", "returned", "exit"}
\* the keys of the tasks the classifier gave the three transfer buckets
RoutedKeys ==
    KeysOf(sched.buckets.parallel_tasks) \cup KeysOf(sched.buckets.video_view_only_tasks)
        \cup KeysOf(sched.buckets.pdf_view_only_tasks)
SavedCheckpoint == FileAt(fs, _get_checkpoint_path(MainFolderId))

\* C18: in every state of a pool bucket the futures submitted and not yet
\* taken out of the futures dict by the loop, and so the workers running,
\* are at most `workers`
C18_BoundedConcurrency ==
    sched.pc # "none" =>
        /\ Cardinality(sched.futures) <= sched.workers
        /\ Cardinality(Running) <= sched.workers
        /\ ( /\ sched.pc \in {"submit", "loop", "process", "resubmit", "unwind"}
             /\ sched.bucket \in {"standard", "video"} ) =>
              Cardinality(sched.futures) + Len(sched.available_workers)
                 <= Slots(sched.bucket, sched.workers, Len(RunTasks))

\* one worker for two tasks: the second is in flight once the first result
\* was processed, the first was not submitted with it
C18_Witness ==
    /\ sched.pc = "loop" /\ sched.workers = 1 /\ Len(RunTasks) = 2
    /\ Len(sched.results) = 1 /\ Cardinality(Running) = 1

\* C19: once the run is over no key is in both completed_files and
\* failed_files, nor in both lists of the checkpoint file
C19_Disjoint ==
    RunOver =>
        /\ main.completed_files \cap main.failed_files = {}
        /\ SavedCheckpoint.kind = "dict" =>
              SetOf(SavedCheckpoint.data.completed_files)
                 \cap SetOf(SavedCheckpoint.data.failed_files) = {}

\* C20: the report clears the checkpoint only when failed_files is empty
\* and the key of every task of the three transfer buckets is in
\* completed_files
C20_ClearOnlyIfComplete ==
    sched.pc # "none" /\ sched.cleared =>
        /\ main.failed_files = {}
        /\ RoutedKeys \subseteq main.completed_files


\* C21: a run that is over with keys in failed_files has not cleared the
\* checkpoint: the file is in place and its failed_files list holds those keys
C21_FailedKeepsCheckpoint ==
    RunOver /\ main.failed_files # {} =>
        /\ ~sched.cleared
        /\ SavedCheckpoint.kind = "dict"
        /\ main.failed_files \subseteq SetOf(SavedCheckpoint.data.failed_files)

C23_FinalSaveAfterGrace ==
    sched.pc = "returned" /\ ~sched.again =>
        /\ SavedCheckpoint.kind = "dict"
        /\ main.completed_files \subseteq SetOf(SavedCheckpoint.data.completed_files)
        /\ main.failed_files \subseteq SetOf(SavedCheckpoint.data.failed_files)

\* C24: once a pool bucket has caught the KeyboardInterrupt, main() leaves
\* the bucket, whether the transfers in flight ever finish or not
C24_CancellationBounded ==
    (sched.pc = "unwind") ~> (sched.pc \in {"returned", "exited"})

\* C26: signal_handler saves the checkpoint at most once in a run
C26_HandlerSavesOnce ==
    sched.pc # "none" => sched.handler_saves <= 1

\* C28: from the start of scheduling on, completed_files and failed_files
\* only grow, and the two lists of a checkpoint file are contained in those
\* of every checkpoint file saved later in the run
C28_MonotonicSnapshots ==
    [][ /\ main.completed_files \subseteq main'.completed_files
        /\ main.failed_files \subseteq main'.failed_files
        /\ SavedCheckpoint.kind = "dict" /\ SavedCheckpoint'.kind = "dict" =>
              /\ SetOf(SavedCheckpoint.data.completed_files)
                    \subseteq SetOf(SavedCheckpoint'.data.completed_files)
              /\ SetOf(SavedCheckpoint.data.failed_files)
                    \subseteq SetOf(SavedCheckpoint'.data.failed_files) ]_vars

\* a first run of two PDF tasks has saved after each: the file holds both keys
C28_Witness ==
    /\ sched.pc = "loop" /\ sched.bucket = "pdf" /\ sched.idx = 3 /\ ~main.resume
    /\ SavedCheckpoint.kind = "dict"
    /\ SavedCheckpoint.data.total_completed + SavedCheckpoint.data.total_failed = 2

C25_HandlerProtocol ==
    /\ main.handler # "none" => main.interrupted
    /\ main.handler = "saving" =>
          /\ call[HandlerFrame].op = "save"
          /\ call[HandlerFrame].folder_id = main.current_folder_id
    /\ main.pc = "exit" => main.exc = "KeyboardInterrupt"

\* C27: the handler's save is never left waiting for the lock that the
\* frame of main() under it holds
C27_NoHang ==
    ~ ( /\ main.handler = "saving"
        /\ pc[HandlerFrame] = "save_enter"
        /\ lock = MainThread )


(***************************************************************************)
(* Properties of a save next to running workers                            *)
(***************************************************************************)
\* C29: in every checkpoint file a save has written, total_completed is the
\* length of completed_files and total_failed the length of failed_files
C29_TotalsMatchLists ==
    \A path \in DOMAIN fs :
       fs[path].kind = "dict" =>
          /\ fs[path].data.total_completed = Len(fs[path].data.completed_files)
          /\ fs[path].data.total_failed = Len(fs[path].data.failed_files)

(***************************************************************************)
(* Properties of the concurrency budget                                    *)
(***************************************************************************)
\* C31: validate_workers returns its argument when it is within
\* [min_workers, max_workers], min_workers when it is below and max_workers
\* when it is above; with the defaults the budget is within 1..20
C31_WorkersClamped ==
    sched.pc = "validated" =>
        LET w == sched.args_workers
            lo == sched.min_workers
            hi == sched.max_workers
        IN  /\ (lo <= w /\ w <= hi) => sched.workers = w
            /\ w < lo => sched.workers = lo
            /\ w > hi => sched.workers = hi
            /\ (lo = min_workers_default /\ hi = max_workers_default) =>
                  sched.workers \in 1..20

\* an argument above the maximum was validated with the defaults
C31_Witness ==
    /\ sched.pc = "validated"
    /\ sched.min_workers = min_workers_default /\ sched.max_workers = max_workers_default
    /\ sched.args_workers > sched.max_workers
    /\ sched.workers = max_workers_default

(***************************************************************************)
(* Properties of the scheduler                                             *)
(***************************************************************************)
\* C32: a pool bucket that runs has min(workers, number of its tasks)
\* worker slots, the ones in the queue of available slots and the ones
\* held by futures included
C32_SlotsAreMinOfBudgetAndQueue ==
    (sched.pc = "loop" /\ sched.bucket \in {"standard", "video"}) =>
        /\ sched.worker_tasks = Min(sched.workers, Len(RunTasks))
        /\ Len(sched.available_workers) + Cardinality(sched.futures) = sched.worker_tasks

\* the pool bucket that is running
InPool == PoolBucket /\ sched.pc \in {"submit", "loop", "process", "resubmit", "unwind"}
\* the place of a key in the bucket the classifier made
Place(k) == CHOOSE i \in 1..Len(RunTasks) : file_key(RunTasks[i]) = k

\* C33: the tasks of a pool bucket are submitted in the order the classifier
\* put them in the bucket, none twice, and a task that left the queue of
\* pending tasks never comes back to it, in whatever order the futures
\* complete
C33_SubmittedInOrderOnce ==
    InPool =>
        LET n == Len(RunTasks)
            p == Len(sched.pending_tasks)
        IN  /\ \A i \in 1..Len(sched.submitted) :
                  /\ sched.submitted[i] \in KeysOf(RunTasks)
                  /\ Place(sched.submitted[i]) <= n - p
            /\ \A i, j \in 1..Len(sched.submitted) :
                  i < j => Place(sched.submitted[i]) < Place(sched.submitted[j])
            /\ p <= n /\ \A i \in 1..p : sched.pending_tasks[i] = RunTasks[n - p + i]

\* two tasks on two workers: the result of the second was processed while
\* the first is still running
C33_Witness ==
    /\ InPool /\ Len(RunTasks) = 2 /\ Len(sched.submitted) = 2
    /\ Len(sched.results) = 1
    /\ \E future \in sched.futures :
          future.file_key = file_key(RunTasks[1]) /\ future.state = "running"

\* the slots that futures hold, and the ones in the queue of available slots
HeldSlots == {future.tid : future \in sched.futures}
AvailableSlots == SetOf(sched.available_workers)

\* C34: when the loop of a pool bucket waits for a completion or goes to the
\* next done future, with no SIGINT so far, no task is pending or no slot
\* is available and every slot is held by a future; and at any time no slot
\* is held by two futures, nor held by one while it is available
C34_SlotsOccupied ==
    InPool =>
        /\ (sched.pc \in {"loop", "process"} /\ ~main.interrupted) =>
              \/ sched.pending_tasks = <<>>
              \/ /\ sched.available_workers = <<>>
                 /\ HeldSlots = 1..sched.worker_tasks
        /\ \A f, g \in sched.futures : f.tid = g.tid => f = g
        /\ HeldSlots \cap AvailableSlots = {}

\* one worker, two tasks: the first result was processed and the second
\* task runs on the slot the first gave back
C34_Witness ==
    /\ InPool /\ sched.pc = "loop" /\ ~main.interrupted
    /\ sched.workers = 1 /\ Len(RunTasks) = 2 /\ Len(sched.results) = 1
    /\ \E future \in sched.futures :
          /\ future.file_key = file_key(RunTasks[2])
          /\ future.tid = 1 /\ future.state = "running"

\* the saves main()'s loops have asked for in one bucket
SavesOf(bucket, kind) ==
    {sched.save_log[i][2] : i \in {j \in 1..Len(sched.save_log) :
                                      /\ sched.save_log[j][1] = bucket
                                      /\ sched.save_log[j][3] = kind}}
\* a pool bucket with tasks that main() has left for the next one
Exhausted(bucket) ==
    /\ TasksOf(bucket, sched.buckets) # <<>>
    /\ \/ bucket = "standard" /\ sched.bucket \in {"video", "pdf"}
       \/ bucket = "video" /\ sched.bucket = "pdf"

\* C35: in a run with no SIGINT, before a pool bucket's loop goes to the
\* next completion a save was asked for at every multiple of 10 results
\* (standard) or of 5 results (videos) reached so far, and a bucket whose
\* queue is exhausted had a final save at the number of its tasks
C35_PeriodicSave ==
    ~main.interrupted =>
        /\ (InPool /\ sched.pc \in {"loop", "process"}) =>
              \A n \in 1..Len(sched.results) :
                 n % (IF sched.bucket = "standard" THEN 10 ELSE 5) = 0
                    => n \in SavesOf(sched.bucket, "periodic")
        /\ \A bucket \in {"standard", "video"} :
              Exhausted(bucket) =>
                 Len(TasksOf(bucket, sched.buckets)) \in SavesOf(bucket, "final")

\* six videos: the save of the fifth result was made and the sixth is to come
C35_Witness ==
    /\ ~main.interrupted /\ InPool /\ sched.bucket = "video" /\ sched.pc = "loop"
    /\ Len(RunTasks) = 6 /\ Len(sched.results) = 5
    /\ SavesOf("video", "periodic") = {5}
    /\ SavedCheckpoint.kind = "dict"
    /\ SavedCheckpoint.data.total_completed + SavedCheckpoint.data.total_failed = 5

\* C36: once signal_handler has set interrupted, no task is submitted to
\* the executor (nor started by the PDF loop) in that run
C36_NoSubmitAfterCancel ==
    [][main.interrupted => Len(sched'.submitted) <= Len(sched.submitted)]_vars

StoredValid == sched.stored # NoFile /\ LoadOutcome(sched.stored) = "dict"

\* C38: main() starts from the two sets of the stored checkpoint when
\* --resume was given, --clear-checkpoint was not, the stored file loads as
\* a checkpoint and the user answers 's'; in every other case it starts
\* from two empty sets
C38_InitialJobState ==
    sched.pc = "started" =>
        IF sched.resume /\ ~sched.clear_checkpoint /\ StoredValid /\ sched.answer = "s"
        THEN /\ main.completed_files = SetOf(sched.stored.data.completed_files)
             /\ main.failed_files = SetOf(sched.stored.data.failed_files)
        ELSE main.completed_files = {} /\ main.failed_files = {}

\* main() has caught the KeyboardInterrupt of signal_handler or read the
\* flag it set
Observed ==
    main.interrupted /\ sched.pc \in {"unwind", "returned", "exit", "exited", "report", "done"}

\* C39: interrupted is never reset; no bucket is left for the next one with
\* interrupted set; and once main() has observed the cancellation, no task
\* of the bucket or of a later one is submitted or started
C39_SharedCancellation ==
    [][ /\ main.interrupted => main'.interrupted
        /\ sched'.bucket # sched.bucket => ~main.interrupted /\ ~main'.interrupted
        /\ Observed =>
              /\ sched'.bucket = sched.bucket
              /\ sched'.submitted = sched.submitted
              /\ {future.file_key : future \in sched'.futures}
                    \subseteq {future.file_key : future \in sched.futures} ]_vars

\* the standard bucket was cancelled and main() has returned with the
\* tasks of a later bucket never started
C39_Witness ==
    /\ main.interrupted /\ sched.pc = "returned" /\ sched.bucket = "standard"
    /\ sched.buckets.video_view_only_tasks # <<>> \/ sched.buckets.pdf_view_only_tasks # <<>>
    /\ sched.submitted # <<>>

(***************************************************************************)
(* Properties of a save that fails                                         *)
(***************************************************************************)
\* C40: when save_checkpoint has returned False and no other call has gone
\* into the store since, the checkpoint file of the job is the file it was
\* when the save entered (content and mode), or is absent as it was
C40_FailedSaveKeepsTarget ==
    \A t \in Threads :
        (Returned(t, "save") /\ call[t].val = "False" /\ hist.by = t /\ Inside = {}) =>
            FileAt(fs, _get_checkpoint_path(call[t].folder_id)) = call[t].before
====
